---- MODULE Spec2Model ----
(***************************************************************************)
(* A model of WeMediaSpider: the batch orchestrator                        *)
(* (spider/wechat/scraper.py), the login session cache                     *)
(* (spider/wechat/login.py) and the storage backends (spider/db/sqlite.py, *)
(* spider/db/interface.py, spider/database.py).                            *)
(***************************************************************************)
EXTENDS Integers, Sequences, FiniteSets, TLC

VARIABLES
    \* ---- BatchWeChatScraper (scraper.py) ----
    accounts,         \* config['accounts']
    config,           \* the remaining fields of config
    callbacks,        \* BatchWeChatScraper.callbacks: key -> registered?
    is_cancelled,     \* BatchWeChatScraper.is_cancelled
    mainPc,           \* position of the thread running start_batch_scrape
    seqIdx,           \* i of _process_accounts_sequential
    all_articles,     \* all_articles of the running _process_accounts_*
    completed_count,  \* completed_count of _process_accounts_threaded
    task,             \* per account: the state of its _scrape_single_account call
    events,           \* the _trigger_* calls and sleeps of the batch, in order
    \* ---- WeChatSpiderLogin (login.py) ----
    cacheFile,        \* the file wechat_cache.json
    clock,            \* datetime.now(), in hours
    nextToken,        \* the next credential the platform issues
    inst,             \* per caller: token and cookies of its WeChatSpiderLogin
    lpc,              \* per caller: its position in login()
    calls,            \* per caller: what happened in each of its login() calls
    query,            \* per instance: its last status call, accessor call or logout
    \* ---- storage backends (db/sqlite.py, db/interface.py, database.py) ----
    backend,          \* the class of the database object the threads share
    accountsTbl,      \* table accounts, in order of insertion (id = position)
    articlesTbl,      \* table articles, in order of insertion (id = position)
    dbLock,           \* self.lock: the thread holding it, 0 when free
    dpc,              \* per thread: its position in save_account / save_article
    dbCalls,          \* per thread: its save_* calls, the last one the current
    \* ---- WeChatScraper.filter_articles_by_date called on its own ----
    filt,             \* the arguments of the call and, once made, its result
    \* ---- WeChatSpiderRunner.batch_scrape and run_spider (run.py, scheduled_spider.py) ----
    run,              \* the entry point taken, the position in it and what it saw
    \* ---- get_articles called on a stored table (db/sqlite.py, db/interface.py) ----
    srch,             \* the stored rows, the arguments of the call and its result
    \* ---- WeChatScraper.get_article_content_by_url called on its own ----
    enr,              \* the article, the scraper's headers and, once called, the result
    \* ---- a SQLiteDatabase and a DatabaseORM given the same calls ----
    pair,             \* the two stores, the last call and what each returned
    \* ---- save_article and the publish time it is given ----
    stamp             \* the rows saved, the clock, the last call

batchVars == <<accounts, config, callbacks, is_cancelled, mainPc, seqIdx,
               all_articles, completed_count, task, events>>

loginVars == <<cacheFile, clock, nextToken, inst, lpc, calls, query>>

dbVars == <<backend, accountsTbl, articlesTbl, dbLock, dpc, dbCalls>>

filterVars == <<filt>>

runnerVars == <<run>>

searchVars == <<srch>>

enrichVars == <<enr>>

pairVars == <<pair>>

stampVars == <<stamp>>

vars == <<batchVars, loginVars, dbVars, filterVars, runnerVars, searchVars, enrichVars,
         pairVars, stampVars>>

nonBatchVars ==
    <<loginVars, dbVars, filterVars, runnerVars, searchVars, enrichVars, pairVars, stampVars>>
nonLoginVars ==
    <<batchVars, dbVars, filterVars, runnerVars, searchVars, enrichVars, pairVars, stampVars>>
nonDbVars ==
    <<batchVars, loginVars, filterVars, runnerVars, searchVars, enrichVars, pairVars, stampVars>>
nonFilterVars ==
    <<batchVars, loginVars, dbVars, runnerVars, searchVars, enrichVars, pairVars, stampVars>>
nonSearchVars ==
    <<batchVars, loginVars, dbVars, filterVars, runnerVars, enrichVars, pairVars, stampVars>>
nonPairVars ==
    <<batchVars, loginVars, dbVars, filterVars, runnerVars, searchVars, enrichVars,
      stampVars>>
nonStampVars ==
    <<batchVars, loginVars, dbVars, filterVars, runnerVars, searchVars, enrichVars,
      pairVars>>
nonEnrichVars ==
    <<batchVars, loginVars, dbVars, filterVars, runnerVars, searchVars, pairVars, stampVars>>

(***************************************************************************)
(* Bounds of the model.                                                    *)
(***************************************************************************)
MaxAccounts == 3
MaxPoolAccounts == 2
MaxPages == 2
MaxPageLen == 1
MaxDay == 2
MaxWorkers == 2
MaxCallers == 2
MaxCalls == 2
MaxTokens == 3
MaxClock == 144
ClockStep == 48
MaxDbThreads == 2
MaxDbOps == 2
MaxNames == 2
MaxUrls == 2
MaxVersions == 2
MaxDetailKeys == 2
MaxFilterLen == 2
MaxFieldLen == 2
MaxKeywordLen == 1
MaxKeywords == 2
MaxRunnerAccounts == 1
MaxPairOps == 3
MaxPagingAccounts == 2
MaxPersistAccounts == 2
MaxStampClock == 2
MaxQueries == 2

Min(a, b) == IF a < b THEN a ELSE b

(***************************************************************************)
(* BatchWeChatScraper                                                      *)
(***************************************************************************)
Days == 1..MaxDay

\* the keys of BatchWeChatScraper.callbacks
CallbackKeys == {"progress_updated", "account_status", "batch_completed", "error_occurred"}

\* the key BatchWeChatScraper._trigger_error looks up
ErrorKey == "error"

\* page_start += 5 in get_account_articles
PageStep == 5

\* what WeChatScraper.search_account returns: a non-empty candidate list, or an
\* empty list (no match, or an exception of the request, which it catches)
SearchOutcomes == {"found", "none"}

\* the pages a listing request can answer: at most MaxPageLen stubs, each
\* given by its publish day (the empty page: no more articles)
PageResponses ==
    UNION {[1..n -> Days] : n \in 0..MaxPageLen}

ConfigSpace ==
    [use_threading : BOOLEAN, max_workers : 1..MaxWorkers,
     include_content : BOOLEAN, max_pages : -1..MaxPages,
     start_date : Days, end_date : Days]

Task0 == [pc |-> "new", search |-> "unset", page |-> 0, page_start |-> 0,
          fetched |-> <<>>, result |-> <<>>, idx |-> 0, collected |-> FALSE,
          log |-> <<>>]

StatusEv(a, s) == [type |-> "account_status", account |-> a, status |-> s]
ProgressEv(c, t) == [type |-> "progress_updated", current |-> c, total |-> t]
CompletedEv(n) == [type |-> "batch_completed", total |-> n]
\* the CSV file written by save_articles_to_csv
CsvEv(n) == [type |-> "csv_saved", total |-> n]
ErrorEv(a) == [type |-> "error_occurred", account |-> a]
SleepEv(a) == [type |-> "sleep", account |-> a]
\* WeChatScraper: a listing request, the sleep after a page, _trigger_progress
\* and _trigger_error of get_account_articles; kept in the log of the call
ListRequestEv(a, start) == [type |-> "list_request", account |-> a, start |-> start]
PageSleepEv(a) == [type |-> "page_sleep", account |-> a]
\* the sleep of get_articles_list before its request
RequestDelayEv(a) == [type |-> "request_delay", account |-> a]
PageProgressEv(a, c, t) == [type |-> "progress", account |-> a, current |-> c, total |-> t]
ScraperErrorEv(a) == [type |-> "error", account |-> a]

NumAccounts == Len(accounts)

\* _trigger_error: self.callbacks['error'] is a dict lookup, a KeyError when
\* the key is not one of the dict's keys
TriggerErrorRaises == ErrorKey \notin DOMAIN callbacks

\* the events _trigger_error(a, msg) produces when it does not raise
TriggerErrorEvents(a) ==
    IF TriggerErrorRaises THEN <<>> ELSE <<ErrorEv(a)>>

\* seconds of a day of local time; dates are counted in days, timestamps in
\* seconds of local time
SecondsPerDay == 86400

\* the timestamp of 00:00:00 of a date
DayStart(d) == d * SecondsPerDay

\* a date read one second late
DateOfShifted(timestamp) == (timestamp + 1) \div SecondsPerDay

\* datetime.fromtimestamp(int(timestamp)).date()
DateOf(timestamp) == timestamp \div SecondsPerDay

\* the body of the loop of filter_articles_by_date: an article is appended
\* when its timestamp is non-zero and neither "continue" is taken; a bound
\* that is None (0 here) is not compared
InDateRange(art, start_date, end_date) ==
    /\ art.publish_timestamp # 0
    /\ ~(start_date # 0 /\ DateOf(art.publish_timestamp) < start_date)
    /\ ~(end_date # 0 /\ DateOf(art.publish_timestamp) > end_date)

RECURSIVE FilterLoop(_, _, _)
FilterLoop(articles, start_date, end_date) ==
    IF articles = <<>> THEN <<>>
    ELSE (IF InDateRange(Head(articles), start_date, end_date)
          THEN <<Head(articles)>> ELSE <<>>)
         \o FilterLoop(Tail(articles), start_date, end_date)

\* filter_articles_by_date: with neither bound the list is returned as it is
filter_articles_by_date(articles, start_date, end_date) ==
    IF start_date = 0 /\ end_date = 0
    THEN articles
    ELSE FilterLoop(articles, start_date, end_date)

\* the article dicts get_account_articles builds from one page
PageArticles(a, page_start, resp) ==
    [j \in 1..Len(resp) |->
        [name |-> a, link |-> <<a, page_start + j - 1>>, publish_timestamp |-> DayStart(resp[j]), content |-> ""]]

BatchInit(maxAccounts, threading, workers) ==
    /\ accounts \in {[i \in 1..n |-> i] : n \in 0..maxAccounts}
    /\ config \in {c \in ConfigSpace : c.use_threading = threading /\ c.max_workers \in workers}
    /\ callbacks = [k \in CallbackKeys |-> FALSE]
    /\ is_cancelled = FALSE
    /\ mainPc = "idle"
    /\ seqIdx = 0
    /\ all_articles = <<>>
    /\ completed_count = 0
    /\ task = [k \in 1..Len(accounts) |-> Task0]
    /\ events = <<>>

\* set_callback(event_type, f): ignored unless event_type is a key of the dict
set_callback(cbs, event_type) ==
    IF event_type \in DOMAIN cbs THEN [cbs EXCEPT ![event_type] = TRUE] ELSE cbs

\* the four registrations every caller makes (run.py, spider_cli.py, example.py)
RegisterCallbacks ==
    /\ mainPc = "idle"
    /\ callbacks = [k \in CallbackKeys |-> FALSE]
    /\ callbacks' = set_callback(set_callback(set_callback(set_callback(callbacks,
                        "progress_updated"), "account_status"), "batch_completed"),
                        "error_occurred")
    /\ UNCHANGED <<accounts, config, is_cancelled, mainPc, seqIdx, all_articles,
                   completed_count, task, events>>
    /\ UNCHANGED nonBatchVars

cancel_batch_scrape ==
    /\ ~is_cancelled
    /\ mainPc \notin {"returned", "raised"}
    /\ is_cancelled' = TRUE
    /\ UNCHANGED <<accounts, config, callbacks, mainPc, seqIdx, all_articles,
                   completed_count, task, events>>
    /\ UNCHANGED nonBatchVars

\* start_batch_scrape up to the choice of the mode
start_batch_scrape ==
    /\ mainPc = "idle"
    /\ is_cancelled' = FALSE
    /\ IF config.start_date > config.end_date
       THEN /\ events' = events \o TriggerErrorEvents(0)
            /\ mainPc' = IF TriggerErrorRaises THEN "raised" ELSE "returned"
            /\ UNCHANGED task
       ELSE /\ events' = events
            /\ IF config.use_threading /\ NumAccounts > 1
               THEN /\ mainPc' = "thr_wait"
                    /\ task' = [k \in DOMAIN task |-> [task[k] EXCEPT !.pc = "queued"]]
               ELSE /\ mainPc' = "seq_loop"
                    /\ UNCHANGED task
    /\ UNCHANGED <<accounts, config, callbacks, seqIdx, all_articles, completed_count>>
    /\ UNCHANGED nonBatchVars

\* _process_accounts_sequential: the head of one iteration, or the loop's end
SeqLoop ==
    /\ mainPc = "seq_loop"
    /\ IF seqIdx >= NumAccounts \/ is_cancelled
       THEN /\ events' = events \o <<ProgressEv(NumAccounts, NumAccounts)>>
            /\ mainPc' = "finish"
            /\ UNCHANGED task
       ELSE /\ events' = events \o <<StatusEv(accounts[seqIdx + 1], "processing"),
                                     ProgressEv(seqIdx, NumAccounts)>>
            /\ task' = [task EXCEPT ![seqIdx + 1].pc = "search"]
            /\ mainPc' = "seq_run"
    /\ UNCHANGED <<accounts, config, callbacks, is_cancelled, seqIdx, all_articles,
                   completed_count>>
    /\ UNCHANGED nonBatchVars

\* a loop that sleeps after every completed account
InterAccountDelayAlways(i, total_accounts) == TRUE

\* if i < total_accounts - 1: the sleep between two accounts
InterAccountDelay(i, total_accounts) == i < total_accounts - 1

\* _process_accounts_sequential: after _scrape_single_account returned
SeqCompleted ==
    /\ mainPc = "seq_run"
    /\ task[seqIdx + 1].pc = "done"
    /\ ~task[seqIdx + 1].collected
    /\ all_articles' = all_articles \o task[seqIdx + 1].result
    /\ events' = events \o <<StatusEv(accounts[seqIdx + 1], "completed")>>
                        \o (IF InterAccountDelay(seqIdx, NumAccounts)
                            THEN <<SleepEv(accounts[seqIdx + 1])>> ELSE <<>>)
    /\ task' = [task EXCEPT ![seqIdx + 1].collected = TRUE, ![seqIdx + 1].result = <<>>]
    /\ seqIdx' = seqIdx + 1
    /\ mainPc' = "seq_loop"
    /\ UNCHANGED <<accounts, config, callbacks, is_cancelled, completed_count>>
    /\ UNCHANGED nonBatchVars

\* _process_accounts_sequential: the except branch
SeqFailed ==
    /\ mainPc = "seq_run"
    /\ task[seqIdx + 1].pc = "failed"
    /\ ~task[seqIdx + 1].collected
    /\ events' = events \o <<StatusEv(accounts[seqIdx + 1], "error")>>
                        \o TriggerErrorEvents(accounts[seqIdx + 1])
    /\ task' = [task EXCEPT ![seqIdx + 1].collected = TRUE]
    /\ IF TriggerErrorRaises
       THEN mainPc' = "raised" /\ seqIdx' = seqIdx
       ELSE mainPc' = "seq_loop" /\ seqIdx' = seqIdx + 1
    /\ UNCHANGED <<accounts, config, callbacks, is_cancelled, all_articles,
                   completed_count>>
    /\ UNCHANGED nonBatchVars

Executing(k) == task[k].pc \in {"search", "fetch", "filter", "content"}
Finished(k) == task[k].pc \in {"done", "failed"}

\* a pool that starts a thread for every submitted work item
WorkerStartUnbounded(k) ==
    /\ task[k].pc = "queued"
    /\ task' = [task EXCEPT ![k].pc = "search"]
    /\ UNCHANGED <<accounts, config, callbacks, is_cancelled, mainPc, seqIdx,
                   all_articles, completed_count, events>>
    /\ UNCHANGED nonBatchVars

\* a pool thread takes the next queued work item
WorkerStart(k) ==
    /\ task[k].pc = "queued"
    /\ \A j \in DOMAIN task : j < k => task[j].pc # "queued"
    /\ Cardinality({j \in DOMAIN task : Executing(j)})
          < Min(config.max_workers, NumAccounts)
    /\ task' = [task EXCEPT ![k].pc = "search"]
    /\ UNCHANGED <<accounts, config, callbacks, is_cancelled, mainPc, seqIdx,
                   all_articles, completed_count, events>>
    /\ UNCHANGED nonBatchVars

\* an aggregation that keeps only the result collected last
extend_replacing(list, articles) == articles

\* all_articles.extend(articles)
extend(list, articles) == list \o articles

\* _process_accounts_threaded: one iteration of the as_completed loop
ThrCollect(k) ==
    /\ mainPc = "thr_wait"
    /\ Finished(k)
    /\ ~task[k].collected
    /\ completed_count' = completed_count + 1
    /\ task' = [task EXCEPT ![k].collected = TRUE, ![k].result = <<>>]
    /\ IF task[k].pc = "done"
       THEN /\ all_articles' = extend(all_articles, task[k].result)
            /\ events' = events \o <<StatusEv(accounts[k], "completed"),
                                     ProgressEv(completed_count + 1, NumAccounts)>>
            /\ mainPc' = IF is_cancelled \/ completed_count + 1 = NumAccounts
                         THEN "thr_exit" ELSE "thr_wait"
       ELSE /\ UNCHANGED all_articles
            /\ IF TriggerErrorRaises
               THEN /\ events' = events \o <<StatusEv(accounts[k], "error")>>
                    /\ mainPc' = "thr_exit_raise"
               ELSE /\ events' = events \o <<StatusEv(accounts[k], "error"),
                                             ErrorEv(accounts[k]),
                                             ProgressEv(completed_count + 1, NumAccounts)>>
                    /\ mainPc' = IF is_cancelled \/ completed_count + 1 = NumAccounts
                                 THEN "thr_exit" ELSE "thr_wait"
    /\ UNCHANGED <<accounts, config, callbacks, is_cancelled, seqIdx>>
    /\ UNCHANGED nonBatchVars

\* leaving the with block: ThreadPoolExecutor.__exit__ is shutdown(wait=True)
ThrExit ==
    /\ mainPc \in {"thr_exit", "thr_exit_raise"}
    /\ \A k \in DOMAIN task : Finished(k)
    /\ mainPc' = IF mainPc = "thr_exit" THEN "finish" ELSE "raised"
    /\ UNCHANGED <<accounts, config, callbacks, is_cancelled, seqIdx, all_articles,
                   completed_count, task, events>>
    /\ UNCHANGED nonBatchVars

\* save_articles_to_csv(articles, output_file): nothing is written for an
\* empty list (every caller of the batch sets output_file)
save_articles_to_csv(articles) ==
    IF articles = <<>> THEN <<>> ELSE <<CsvEv(Len(articles))>>

\* the tail of start_batch_scrape
Finish ==
    /\ mainPc = "finish"
    /\ events' = IF is_cancelled THEN events
                 ELSE events \o save_articles_to_csv(all_articles)
                             \o <<CompletedEv(Len(all_articles))>>
    /\ mainPc' = "returned"
    /\ UNCHANGED <<accounts, config, callbacks, is_cancelled, seqIdx, all_articles,
                   completed_count, task>>
    /\ UNCHANGED nonBatchVars

\* a page loop that runs its body before it tests the budget
PageLoopRunsOnce(max_pages, page) == page = 0 \/ page < max_pages

\* for page in range(max_pages): whether there is an iteration number page
PageLoopRuns(max_pages, page) == page < max_pages

\* _scrape_single_account: search_account, and the raise on no candidate
TaskSearch(k) ==
    /\ task[k].pc = "search"
    /\ \E res \in SearchOutcomes :
         IF res = "found"
         THEN /\ events' = events \o <<StatusEv(accounts[k], "searching"),
                                       StatusEv(accounts[k], "fetching")>>
              /\ task' = [task EXCEPT
                            ![k].search = res,
                            ![k].log = IF PageLoopRuns(config.max_pages, 0)
                                       THEN <<>>
                                       ELSE \* range(max_pages) is empty
                                            <<PageProgressEv(accounts[k],
                                                config.max_pages, config.max_pages)>>,
                            ![k].pc = IF PageLoopRuns(config.max_pages, 0)
                                      THEN "fetch" ELSE "filter"]
         ELSE /\ events' = events \o <<StatusEv(accounts[k], "searching")>>
              /\ task' = [task EXCEPT ![k].search = res, ![k].pc = "failed"]
    /\ UNCHANGED <<accounts, config, callbacks, is_cancelled, mainPc, seqIdx,
                   all_articles, completed_count>>
    /\ UNCHANGED nonBatchVars

\* a listing call that sends its request at once
get_articles_list_no_delay(a, start_page) == <<ListRequestEv(a, start_page)>>

\* get_articles_list(page_num=1, start_page=..): the sleep, then the request
get_articles_list(a, start_page) ==
    <<RequestDelayEv(a), ListRequestEv(a, start_page)>>

\* a page loop that asks for the same offset again
NextPageStartSame(page_start) == page_start

\* page_start += 5
NextPageStart(page_start) == page_start + PageStep

\* get_account_articles: one iteration of the page loop
TaskFetchPage(k) ==
    /\ task[k].pc = "fetch"
    /\ LET a == accounts[k]
           request == <<PageProgressEv(a, task[k].page, config.max_pages)>>
                        \o get_articles_list(a, task[k].page_start)
           fetched == <<PageProgressEv(a, config.max_pages, config.max_pages)>>
       IN
       \/ \* the listing request raises: the except branch returns []
          task' = [task EXCEPT ![k].fetched = <<>>, ![k].pc = "filter",
                               ![k].log = @ \o request \o <<ScraperErrorEv(a)>>]
       \/ \E resp \in PageResponses :
            IF resp = <<>>
            THEN task' = [task EXCEPT ![k].pc = "filter",
                                      ![k].log = @ \o request \o fetched]
            ELSE task' = [task EXCEPT
                    ![k].fetched = @ \o PageArticles(a, task[k].page_start, resp),
                    ![k].page_start = NextPageStart(@),
                    ![k].page = @ + 1,
                    ![k].log = @ \o request \o <<PageSleepEv(a)>>
                                 \o (IF PageLoopRuns(config.max_pages, task[k].page + 1)
                                     THEN <<>> ELSE fetched),
                    ![k].pc = IF PageLoopRuns(config.max_pages, task[k].page + 1)
                              THEN "fetch" ELSE "filter"]
    /\ UNCHANGED <<accounts, config, callbacks, is_cancelled, mainPc, seqIdx,
                   all_articles, completed_count, events>>
    /\ UNCHANGED nonBatchVars

\* _scrape_single_account: the date filter and the entry of the content loop
TaskFilter(k) ==
    /\ task[k].pc = "filter"
    /\ LET inRange == filter_articles_by_date(task[k].fetched,
                           config.start_date, config.end_date)
       IN IF config.include_content /\ inRange # <<>>
          THEN /\ events' = events \o <<StatusEv(accounts[k], "filtering"),
                                        StatusEv(accounts[k], "content")>>
               /\ task' = [task EXCEPT ![k].result = inRange, ![k].idx = 1,
                                       ![k].fetched = <<>>, ![k].pc = "content"]
          ELSE /\ events' = events \o <<StatusEv(accounts[k], "filtering")>>
               /\ task' = [task EXCEPT ![k].result = inRange, ![k].fetched = <<>>,
                                       ![k].pc = "done"]
    /\ UNCHANGED <<accounts, config, callbacks, is_cancelled, mainPc, seqIdx,
                   all_articles, completed_count>>
    /\ UNCHANGED nonBatchVars

\* what the content request of one article can come to: a page with text, a
\* page without .rich_media_content, a status other than 200, an exception
ContentOutcomes == {"text", "no_element", "status", "exception"}

\* the outcomes the content loop of a batch is run with
BatchContentOutcomes == {"text", "exception"}

\* the outcomes the enricher reports in the content field
FailedOutcomes == {"status", "exception"}

\* get_article_content(url, headers): the string it returns
get_article_content(outcome) ==
    CASE outcome = "text" -> "text"
      [] outcome = "no_element" -> ""
      [] outcome = "status" -> "status_error"
      [] outcome = "exception" -> "fetch_error"

\* an enricher that leaves the article as it was when the request failed
get_article_content_by_url_silent(article, has_headers, outcome) ==
    IF ~has_headers \/ outcome \in FailedOutcomes THEN article
    ELSE [article EXCEPT !.content = get_article_content(outcome)]

\* get_article_content_by_url(article): the article it returns
get_article_content_by_url(article, has_headers, outcome) ==
    IF ~has_headers THEN article
    ELSE [article EXCEPT !.content = get_article_content(outcome)]

\* _scrape_single_account: one iteration of the content loop
TaskContent(k) ==
    /\ task[k].pc = "content"
    /\ IF is_cancelled
       THEN task' = [task EXCEPT ![k].pc = "done"]
       ELSE \E outcome \in BatchContentOutcomes :
              task' = [task EXCEPT
                  ![k].result[task[k].idx] =
                      get_article_content_by_url(@, TRUE, outcome),
                  ![k].idx = @ + 1,
                  ![k].pc = IF task[k].idx >= Len(task[k].result)
                            THEN "done" ELSE "content"]
    /\ UNCHANGED <<accounts, config, callbacks, is_cancelled, mainPc, seqIdx,
                   all_articles, completed_count, events>>
    /\ UNCHANGED nonBatchVars

SeqNext ==
    \/ RegisterCallbacks
    \/ cancel_batch_scrape
    \/ start_batch_scrape
    \/ SeqLoop
    \/ SeqCompleted
    \/ SeqFailed
    \/ Finish
    \/ \E k \in DOMAIN task : TaskSearch(k)
    \/ \E k \in DOMAIN task : TaskFetchPage(k)
    \/ \E k \in DOMAIN task : TaskFilter(k)
    \/ \E k \in DOMAIN task : TaskContent(k)

PoolNext ==
    \/ SeqNext
    \/ \E k \in DOMAIN task : WorkerStart(k)
    \/ \E k \in DOMAIN task : ThrCollect(k)
    \/ ThrExit

(***************************************************************************)
(* WeChatSpiderLogin                                                       *)
(***************************************************************************)
CACHE_EXPIRE_HOURS == 96

Callers == 1..MaxCallers

NoFile == [exists |-> FALSE, token |-> 0, cookies |-> 0, timestamp |-> 0]

\* base_resp.ret values that validate_cache names as a dead token
RevocationCodes == {-6, 200013}

\* what the probe request of validate_cache can produce: a JSON body with
\* base_resp.ret, a JSON body without base_resp, or an exception (connection
\* error, timeout, raise_for_status, response.json())
ProbeResponses ==
    {[kind |-> "json", ret |-> r] : r \in {0, -1} \cup RevocationCodes}
      \cup {[kind |-> "no_base_resp", ret |-> 0], [kind |-> "exception", ret |-> 0]}

\* how the platform meant a probe response
ProbeClass(resp) ==
    CASE resp.kind = "exception" -> "transient"
      [] resp.kind = "json" /\ resp.ret = 0 -> "ok"
      [] resp.kind = "json" /\ resp.ret \in RevocationCodes -> "revoked"
      [] OTHER -> "other"

\* load_cache with the age test off by one (>= for >)
load_cache_expires_early(file, now) ==
    /\ file.exists
    /\ ~((now - file.timestamp) >= CACHE_EXPIRE_HOURS)

\* load_cache without the test of the age
load_cache_ignores_age(file, now) == file.exists

\* load_cache: whether the file is there and not older than the window
load_cache(file, now) ==
    /\ file.exists
    /\ ~((now - file.timestamp) > CACHE_EXPIRE_HOURS)

\* validate_cache, given the answer of its probe request
validate_cache(self, resp) ==
    IF self.token = 0 \/ self.cookies = 0 THEN FALSE
    ELSE IF resp.kind = "exception" THEN FALSE
    ELSE IF resp.kind = "json"
         THEN (IF resp.ret = 0 THEN TRUE
               ELSE IF resp.ret \in RevocationCodes THEN FALSE
               ELSE FALSE)
         ELSE FALSE

\* save_cache writing a timestamp that is not the time of the save
CacheDataStale(self, now) ==
    [exists |-> TRUE, token |-> self.token, cookies |-> self.cookies, timestamp |-> 0]

\* the cache_data save_cache writes
CacheData(self, now) ==
    [exists |-> TRUE, token |-> self.token, cookies |-> self.cookies, timestamp |-> now]

\* no status call, accessor call or logout made yet
Query0 == [op |-> "none", value |-> 0, ok |-> FALSE, lastLogin |-> "none", n |-> 0]

Call0 == [inWindow |-> FALSE, expired |-> FALSE, probe |-> "none", cleared |-> FALSE,
          auth |-> FALSE, authOk |-> FALSE, saved |-> FALSE, result |-> "running"]

CurCall(t) == calls[t][Len(calls[t])]

SetCur(t, f, v) == [calls EXCEPT ![t][Len(calls[t])][f] = v]

LoginInit ==
    /\ cacheFile \in {NoFile, [exists |-> TRUE, token |-> 1, cookies |-> 1, timestamp |-> 0]}
    /\ clock = 0
    /\ nextToken = 2
    /\ inst = [t \in Callers |-> [token |-> 0, cookies |-> 0]]
    /\ lpc = [t \in Callers |-> "idle"]
    /\ calls = [t \in Callers |-> <<>>]
    /\ query = [t \in Callers |-> Query0]

\* time passes
Tick ==
    /\ clock + ClockStep <= MaxClock
    /\ clock' = clock + ClockStep
    /\ UNCHANGED <<cacheFile, nextToken, inst, lpc, calls, query>>
    /\ UNCHANGED nonLoginVars

\* login(): self.load_cache()
LoginLoadCache(t) ==
    /\ lpc[t] = "idle"
    /\ Len(calls[t]) < MaxCalls
    /\ LET inWindow == cacheFile.exists /\ clock - cacheFile.timestamp <= CACHE_EXPIRE_HOURS
           call == [Call0 EXCEPT !.inWindow = inWindow,
                                 !.expired = cacheFile.exists /\ ~inWindow]
       IN /\ calls' = [calls EXCEPT ![t] = Append(@, call)]
          /\ IF load_cache(cacheFile, clock)
             THEN /\ inst' = [inst EXCEPT ![t] = [token |-> cacheFile.token,
                                                  cookies |-> cacheFile.cookies]]
                  /\ lpc' = [lpc EXCEPT ![t] = "validate"]
             ELSE /\ inst' = inst
                  /\ lpc' = [lpc EXCEPT ![t] = "clear"]
    /\ UNCHANGED <<cacheFile, clock, nextToken, query>>
    /\ UNCHANGED nonLoginVars

\* login(): self.validate_cache(), return True when it holds
LoginValidate(t) ==
    /\ lpc[t] = "validate"
    /\ \E resp \in ProbeResponses :
         LET probed == IF inst[t].token = 0 \/ inst[t].cookies = 0
                       THEN "none" ELSE ProbeClass(resp)
         IN IF validate_cache(inst[t], resp)
            THEN /\ calls' = [calls EXCEPT ![t][Len(calls[t])].probe = probed,
                                           ![t][Len(calls[t])].result = "true"]
                 /\ lpc' = [lpc EXCEPT ![t] = "idle"]
            ELSE /\ calls' = SetCur(t, "probe", probed)
                 /\ lpc' = [lpc EXCEPT ![t] = "clear"]
    /\ UNCHANGED <<cacheFile, clock, nextToken, inst, query>>
    /\ UNCHANGED nonLoginVars

\* login(): self.clear_cache()
LoginClearCache(t) ==
    /\ lpc[t] = "clear"
    /\ cacheFile' = NoFile
    /\ calls' = SetCur(t, "cleared", TRUE)
    /\ lpc' = [lpc EXCEPT ![t] = "browser"]
    /\ UNCHANGED <<clock, nextToken, inst, query>>
    /\ UNCHANGED nonLoginVars

\* login(): webdriver.Chrome(...) starts, or fails and login returns False
LoginStartBrowser(t) ==
    /\ lpc[t] = "browser"
    /\ \/ /\ calls' = SetCur(t, "auth", TRUE)
          /\ lpc' = [lpc EXCEPT ![t] = "scan"]
       \/ /\ calls' = [calls EXCEPT ![t][Len(calls[t])].auth = TRUE,
                                    ![t][Len(calls[t])].result = "false"]
          /\ lpc' = [lpc EXCEPT ![t] = "idle"]
    /\ UNCHANGED <<cacheFile, clock, nextToken, inst, query>>
    /\ UNCHANGED nonLoginVars

\* login(): the wait for the scan, the token from the URL and the cookies
LoginScan(t) ==
    /\ lpc[t] = "scan"
    /\ \/ \* the scan succeeds: a new token and its cookies
          /\ nextToken <= MaxTokens
          /\ inst' = [inst EXCEPT ![t] = [token |-> nextToken, cookies |-> nextToken]]
          /\ nextToken' = nextToken + 1
          /\ calls' = SetCur(t, "authOk", TRUE)
          /\ lpc' = [lpc EXCEPT ![t] = "save"]
       \/ \* timeout, or no token in the URL: nothing is set
          /\ calls' = SetCur(t, "result", "false")
          /\ lpc' = [lpc EXCEPT ![t] = "idle"]
          /\ UNCHANGED <<inst, nextToken>>
       \/ \* the token is set and get_cookies() raises
          /\ nextToken <= MaxTokens
          /\ inst' = [inst EXCEPT ![t].token = nextToken]
          /\ nextToken' = nextToken + 1
          /\ calls' = SetCur(t, "result", "false")
          /\ lpc' = [lpc EXCEPT ![t] = "idle"]
    /\ UNCHANGED <<cacheFile, clock, query>>
    /\ UNCHANGED nonLoginVars

\* login(): self.save_cache(), then return True whatever it returned
LoginSaveCache(t) ==
    /\ lpc[t] = "save"
    /\ \/ \* the file is written
          /\ inst[t].token # 0 /\ inst[t].cookies # 0
          /\ cacheFile' = CacheData(inst[t], clock)
          /\ calls' = [calls EXCEPT ![t][Len(calls[t])].saved = TRUE,
                                    ![t][Len(calls[t])].result = "true"]
       \/ \* open() or json.dump() raises: save_cache returns False
          /\ cacheFile' = cacheFile
          /\ calls' = SetCur(t, "result", "true")
    /\ lpc' = [lpc EXCEPT ![t] = "idle"]
    /\ UNCHANGED <<clock, nextToken, inst, query>>
    /\ UNCHANGED nonLoginVars

LoginNext ==
    \/ Tick
    \/ \E t \in Callers : LoginLoadCache(t)
    \/ \E t \in Callers : LoginValidate(t)
    \/ \E t \in Callers : LoginClearCache(t)
    \/ \E t \in Callers : LoginStartBrowser(t)
    \/ \E t \in Callers : LoginScan(t)
    \/ \E t \in Callers : LoginSaveCache(t)

(***************************************************************************)
(* The storage backends: SQLiteDatabase (db/sqlite.py), DatabaseORM        *)
(* (db/interface.py) and ArticleDatabase (database.py).  Threads share one  *)
(* database object.  A submitted article of version v carries v as its     *)
(* account, title, content, summary (digest), details and batch id.  The   *)
(* details of an account are a dict over DetailKeys, 0 for a key that is   *)
(* absent.                                                                 *)
(***************************************************************************)
DbThreads == 1..MaxDbThreads
Names == 1..MaxNames
Urls == 1..MaxUrls
Versions == 1..MaxVersions
Platform == "wechat"
DetailKeys == 1..MaxDetailKeys
\* the details dicts a caller passes: the first n keys, each with value n
DetailsSpace ==
    {[k \in DetailKeys |-> IF k <= n THEN n ELSE 0] : n \in 0..MaxDetailKeys}
NoDetails == [k \in DetailKeys |-> 0]

Backends == {"sqlite", "orm", "legacy"}

\* the classes whose methods run under "with self.lock"
HasLock(b) == b \in {"sqlite", "legacy"}

\* SELECT id FROM accounts WHERE platform=? AND name=?: the ids found
AccountIds(tbl, platform, name) ==
    {i \in DOMAIN tbl : tbl[i].platform = platform /\ tbl[i].name = name}

\* SELECT id FROM articles WHERE url=? (link=? in ArticleDatabase)
ArticleIds(tbl, url) == {i \in DOMAIN tbl : tbl[i].url = url}

\* dict.update(new) on old
dict_update(old, new) ==
    [k \in DetailKeys |-> IF new[k] # 0 THEN new[k] ELSE old[k]]

\* what the commit of DatabaseORM.save_account stores for an existing row
\* whose loaded details dict was updated in place to obj: the JSON column has
\* no mutation tracking and the attribute was never assigned, so the flush
\* emits no UPDATE and the stored value stays
OrmCommitted(stored, obj) == stored

\* the details stored after save_account found the row: SQLiteDatabase only
\* reads the id; DatabaseORM updates the loaded dict when details is non-empty
DetailsAfterExisting(b, stored, new) ==
    IF b = "orm" /\ new # NoDetails
    THEN OrmCommitted(stored, dict_update(stored, new))
    ELSE stored

\* get_account(name=.., platform=..): the details of the row, or "none"
get_account(tbl, platform, name) ==
    IF AccountIds(tbl, platform, name) = {}
    THEN [found |-> FALSE, details |-> NoDetails]
    ELSE [found |-> TRUE,
          details |-> tbl[CHOOSE i \in AccountIds(tbl, platform, name) : TRUE].details]

\* the unique index that is never enforced
NoUniqueIndex(tbl, platform, name) == FALSE

\* UNIQUE(platform, name) / idx_accounts_platform_name: would an INSERT fail
AccountUniqueViolated(tbl, platform, name) ==
    AccountIds(tbl, platform, name) # {}

\* the url column without its UNIQUE constraint
NoUniqueUrl(tbl, url) == FALSE

\* url UNIQUE: would an INSERT fail
ArticleUniqueViolated(tbl, url) == ArticleIds(tbl, url) # {}

\* the row the INSERT of save_article adds; batch_id is a column of
\* ArticleDatabase only, details of the other two only
ArticleRow(b, url, v) ==
    [url |-> url, account |-> v, title |-> v, content |-> v, summary |-> v,
     details |-> IF b = "legacy" THEN 0 ELSE v,
     batch_id |-> IF b = "legacy" THEN v ELSE 0]

\* a duplicate submission that overwrites the row in every backend
OverwriteOnDuplicate(b, row, v) ==
    [row EXCEPT !.summary = v, !.content = v, !.batch_id = v]

\* the stored row after save_article found its url stored already:
\* ArticleDatabase runs UPDATE articles SET digest, content, batch_id;
\* SQLiteDatabase and DatabaseORM return without writing
StoredAfterDuplicate(b, row, v) ==
    IF b = "legacy"
    THEN [row EXCEPT !.summary = v, !.content = v, !.batch_id = v]
    ELSE row

\* a duplicate submission reported as stored by every backend
DuplicateReturnsTrue(b) == "true"

\* what save_article returns when its url is stored already
DuplicateReturn(b) == IF b = "legacy" THEN "true" ELSE "false"

DbCall0(op, key, v, d, stored) ==
    [op |-> op, key |-> key, v |-> v, d |-> d, stored |-> stored,
     fault |-> FALSE, ret |-> "pending", id |-> 0, got |-> NoDetails]

DbCur(t) == dbCalls[t][Len(dbCalls[t])]

\* the call of thread t returns: its result is recorded, "with self.lock"
\* releases the lock
DbReturn(t, ret, id) ==
    /\ dbCalls' = [dbCalls EXCEPT ![t][Len(dbCalls[t])].ret = ret,
                                  ![t][Len(dbCalls[t])].id = id]
    /\ dpc' = [dpc EXCEPT ![t] = "idle"]
    /\ dbLock' = IF dbLock = t THEN 0 ELSE dbLock

\* the call of thread t ends in the except branch of a storage failure
DbFault(t, ret) ==
    /\ dbCalls' = [dbCalls EXCEPT ![t][Len(dbCalls[t])].ret = ret,
                                  ![t][Len(dbCalls[t])].fault = TRUE]
    /\ dpc' = [dpc EXCEPT ![t] = "idle"]
    /\ dbLock' = IF dbLock = t THEN 0 ELSE dbLock

\* what save_article returns when its INSERT fails
InsertFailureReturn(b) == "false"

DbInit ==
    /\ backend \in Backends
    /\ accountsTbl = <<>>
    /\ articlesTbl = <<>>
    /\ dbLock = 0
    /\ dpc = [t \in DbThreads |-> "idle"]
    /\ dbCalls = [t \in DbThreads |-> <<>>]

\* a thread calls save_account(name, platform, details=..),
\* get_account(name=.., platform=..) or save_article(.., url, ..)
DbCall(t) ==
    /\ dpc[t] = "idle"
    /\ Len(dbCalls[t]) < MaxDbOps
    /\ \/ /\ backend # "legacy"
          /\ \E name \in Names, d \in DetailsSpace :
                dbCalls' = [dbCalls EXCEPT ![t] = Append(@,
                    DbCall0("save_account", name, 0, d,
                            AccountIds(accountsTbl, Platform, name) # {}))]
       \/ /\ backend # "legacy"
          /\ \E name \in Names :
                dbCalls' = [dbCalls EXCEPT ![t] = Append(@,
                    DbCall0("get_account", name, 0, NoDetails,
                            AccountIds(accountsTbl, Platform, name) # {}))]
       \/ \E url \in Urls, v \in Versions :
             dbCalls' = [dbCalls EXCEPT ![t] = Append(@,
                 DbCall0("save_article", url, v, NoDetails,
                         ArticleIds(articlesTbl, url) # {}))]
    /\ dpc' = [dpc EXCEPT ![t] = IF HasLock(backend) THEN "lock" ELSE "select"]
    /\ UNCHANGED <<backend, accountsTbl, articlesTbl, dbLock>>
    /\ UNCHANGED nonDbVars

\* with self.lock
DbAcquire(t) ==
    /\ dpc[t] = "lock"
    /\ dbLock = 0
    /\ dbLock' = t
    /\ dpc' = [dpc EXCEPT ![t] = "select"]
    /\ UNCHANGED <<backend, accountsTbl, articlesTbl, dbCalls>>
    /\ UNCHANGED nonDbVars

\* the existence check of save_account / save_article and what follows when
\* the row is found
DbSelect(t) ==
    /\ dpc[t] = "select"
    /\ LET c == DbCur(t) IN
       IF c.op = "get_account"
       THEN LET r == get_account(accountsTbl, Platform, c.key) IN
            /\ dbCalls' = [dbCalls EXCEPT
                              ![t][Len(dbCalls[t])].ret =
                                  IF r.found THEN "row" ELSE "none",
                              ![t][Len(dbCalls[t])].got = r.details]
            /\ dpc' = [dpc EXCEPT ![t] = "idle"]
            /\ dbLock' = IF dbLock = t THEN 0 ELSE dbLock
            /\ UNCHANGED <<accountsTbl, articlesTbl>>
       ELSE IF c.op = "save_account"
       THEN LET found == AccountIds(accountsTbl, Platform, c.key) IN
            IF found # {}
            THEN \* existing: its id is returned (DatabaseORM commits first)
                 /\ accountsTbl' =
                        [i \in DOMAIN accountsTbl |->
                            IF i \in found
                            THEN [accountsTbl[i] EXCEPT !.details =
                                    DetailsAfterExisting(backend, @, c.d)]
                            ELSE accountsTbl[i]]
                 /\ DbReturn(t, "id", CHOOSE i \in found : TRUE)
                 /\ UNCHANGED articlesTbl
            ELSE /\ dpc' = [dpc EXCEPT ![t] = "insert"]
                 /\ UNCHANGED <<accountsTbl, articlesTbl, dbLock, dbCalls>>
       ELSE LET found == ArticleIds(articlesTbl, c.key) IN
            IF found # {}
            THEN /\ articlesTbl' =
                        [i \in DOMAIN articlesTbl |->
                            IF i \in found
                            THEN StoredAfterDuplicate(backend, articlesTbl[i], c.v)
                            ELSE articlesTbl[i]]
                 /\ DbReturn(t, DuplicateReturn(backend), 0)
                 /\ UNCHANGED accountsTbl
            ELSE /\ dpc' = [dpc EXCEPT ![t] = "insert"]
                 /\ UNCHANGED <<accountsTbl, articlesTbl, dbLock, dbCalls>>
    /\ UNCHANGED backend
    /\ UNCHANGED nonDbVars

\* the INSERT and commit of save_account / save_article
DbInsert(t) ==
    /\ dpc[t] = "insert"
    /\ LET c == DbCur(t) IN
       IF c.op = "save_account"
       THEN IF AccountUniqueViolated(accountsTbl, Platform, c.key)
            THEN \* IntegrityError
                 IF backend = "orm"
                 THEN /\ dpc' = [dpc EXCEPT ![t] = "recover"]
                      /\ UNCHANGED <<accountsTbl, articlesTbl, dbLock, dbCalls>>
                 ELSE \* sqlite.py: the SELECT is repeated inside the handler
                      /\ DbReturn(t, "id",
                            CHOOSE i \in AccountIds(accountsTbl, Platform, c.key) : TRUE)
                      /\ UNCHANGED <<accountsTbl, articlesTbl>>
            ELSE /\ accountsTbl' = Append(accountsTbl,
                                          [platform |-> Platform, name |-> c.key,
                                           details |-> c.d])
                 /\ DbReturn(t, "id", Len(accountsTbl) + 1)
                 /\ UNCHANGED articlesTbl
       ELSE IF ArticleUniqueViolated(articlesTbl, c.key)
            THEN \* the exception is caught, rollback, return False
                 /\ DbReturn(t, "false", 0)
                 /\ UNCHANGED <<accountsTbl, articlesTbl>>
            ELSE \/ /\ articlesTbl' = Append(articlesTbl,
                                               ArticleRow(backend, c.key, c.v))
                    /\ DbReturn(t, "true", 0)
                    /\ UNCHANGED accountsTbl
                 \/ \* the INSERT or the commit raises for another reason
                    \* (a constraint other than the url, an I/O error, an
                    \* account id that is no integer): caught, rollback
                    /\ DbFault(t, InsertFailureReturn(backend))
                    /\ UNCHANGED <<accountsTbl, articlesTbl>>
    /\ UNCHANGED backend
    /\ UNCHANGED nonDbVars

\* DatabaseORM.save_account, except IntegrityError: rollback and query again
DbRecover(t) ==
    /\ dpc[t] = "recover"
    /\ LET found == AccountIds(accountsTbl, Platform, DbCur(t).key) IN
       IF found # {}
       THEN DbReturn(t, "id", CHOOSE i \in found : TRUE)
       ELSE DbReturn(t, "none", 0)
    /\ UNCHANGED <<backend, accountsTbl, articlesTbl>>
    /\ UNCHANGED nonDbVars

DbNext ==
    \E t \in DbThreads :
        \/ DbCall(t)
        \/ DbAcquire(t)
        \/ DbSelect(t)
        \/ DbInsert(t)
        \/ DbRecover(t)

(***************************************************************************)
(* WeChatScraper.filter_articles_by_date as a function of its arguments.   *)
(***************************************************************************)
\* timestamps at and next to the day boundaries, and the missing timestamp 0
FilterTimestamps ==
    {0} \cup UNION {{DayStart(d) - 1, DayStart(d),
                     DayStart(d) + SecondsPerDay - 1, DayStart(d) + SecondsPerDay}
                    : d \in Days}

FilterArticles ==
    UNION {[1..n -> [publish_timestamp : FilterTimestamps]] : n \in 0..MaxFilterLen}

\* the arguments; a date of 0 is None
FilterInit ==
    filt \in [articles : FilterArticles, start_date : {0} \cup Days,
              end_date : {0} \cup Days, result : {<<>>}, done : {FALSE}]

FilterCall ==
    /\ ~filt.done
    /\ filt' = [filt EXCEPT
                   !.result = filter_articles_by_date(filt.articles,
                                                      filt.start_date, filt.end_date),
                   !.done = TRUE]
    /\ UNCHANGED nonFilterVars

FilterNext == FilterCall

FilterIdle ==
    filt = [articles |-> <<>>, start_date |-> 0, end_date |-> 0,
            result |-> <<>>, done |-> FALSE]

DbIdle ==
    /\ backend = "sqlite"
    /\ accountsTbl = <<>>
    /\ articlesTbl = <<>>
    /\ dbLock = 0
    /\ dpc = [t \in DbThreads |-> "idle"]
    /\ dbCalls = [t \in DbThreads |-> <<>>]


(***************************************************************************)
(* WeChatScraper.get_article_content_by_url as a function of the article,  *)
(* of the scraper's headers and of the outcome of the content request.     *)
(***************************************************************************)
\* the articles of the first page of the accounts, enriched before or not
EnrichArticles ==
    {[art EXCEPT !.content = c] :
        art \in UNION {{PageArticles(a, 0, <<d>>)[1] : d \in Days} : a \in 1..MaxRunnerAccounts},
        c \in {get_article_content(o) : o \in ContentOutcomes}}

EnrichInit ==
    enr \in [article : EnrichArticles, has_headers : BOOLEAN, outcome : {"none"},
             result : {<<>>}, done : {FALSE}]

EnrichCall ==
    /\ ~enr.done
    /\ \E outcome \in ContentOutcomes :
         enr' = [enr EXCEPT
                    !.outcome = outcome,
                    !.result = get_article_content_by_url(enr.article, enr.has_headers,
                                                          outcome),
                    !.done = TRUE]
    /\ UNCHANGED nonEnrichVars

EnrichNext == EnrichCall

EnrichIdle ==
    enr = [article |-> <<>>, has_headers |-> FALSE, outcome |-> "none",
           result |-> <<>>, done |-> FALSE]

(***************************************************************************)
(* get_articles of SQLiteDatabase and DatabaseORM. Text is a sequence of   *)
(* characters; a date of 0, an account_id of 0 and a platform of "" are    *)
(* arguments left at None.                                                 *)
(***************************************************************************)
\* the characters of stored text, and of keywords: LIKE reads "_" and "%" in
\* a keyword as wildcards
FieldChars == {"a", "A", "b"}
KeywordChars == {"a", "b", "_", "%"}

Strings(chars, n) == UNION {[1..k -> chars] : k \in 0..n}

\* what the last second of a day adds to its first
DayEndOffset == 86399

\* the default of limit
DefaultLimit == 100

\* LIKE compares ASCII letters without their case
Fold(c) == IF c = "A" THEN "a" ELSE c

\* str LIKE pattern
RECURSIVE Like(_, _)
Like(pattern, str) ==
    IF pattern = <<>> THEN str = <<>>
    ELSE IF Head(pattern) = "%"
         THEN Like(Tail(pattern), str) \/ (str # <<>> /\ Like(pattern, Tail(str)))
         ELSE /\ str # <<>>
              /\ Head(pattern) = "_" \/ Fold(Head(pattern)) = Fold(Head(str))
              /\ Like(Tail(pattern), Tail(str))

\* field LIKE '%keyword%' (Article.field.contains(keyword))
contains(field, keyword) == Like(<<"%">> \o keyword \o <<"%">>, field)

\* the condition of one keyword as ArticleDatabase builds it, without the
\* summary
KeywordConditionNoSummary(row, keyword) ==
    contains(row.title, keyword) \/ contains(row.content, keyword)

\* "(title LIKE ? OR content LIKE ? OR summary LIKE ?)"
KeywordCondition(row, keyword) ==
    \/ contains(row.title, keyword)
    \/ contains(row.content, keyword)
    \/ contains(row.summary, keyword)

\* "if keywords:" the conditions of the keywords joined by OR
KeywordFilter(row, keywords) ==
    keywords = <<>> \/ \E i \in DOMAIN keywords : KeywordCondition(row, keywords[i])

\* the WHERE clause of get_articles for one row
RowSelected(row, accs, q) ==
    /\ IF q.platform # "" /\ q.account_id = 0
       THEN /\ row.account_id \in DOMAIN accs
            /\ accs[row.account_id].platform = q.platform
       ELSE q.account_id # 0 => row.account_id = q.account_id
    /\ q.start_date # 0 => row.publish_timestamp >= DayStart(q.start_date)
    /\ q.end_date # 0 => row.publish_timestamp <= DayStart(q.end_date) + DayEndOffset
    /\ KeywordFilter(row, q.keywords)

\* ORDER BY publish_timestamp DESC: the orders of the selected ids the clause
\* allows (rows of one timestamp come in an order SQL leaves open)
OrderedIds(rows, ids) ==
    {o \in [1..Cardinality(ids) -> ids] :
        /\ \A i, j \in DOMAIN o : i # j => o[i] # o[j]
        /\ \A i, j \in DOMAIN o :
              i < j => rows[o[i]].publish_timestamp >= rows[o[j]].publish_timestamp}

\* LIMIT ? OFFSET ?
Page(o, limit, offset) ==
    SubSeq(o, offset + 1, Min(Len(o), offset + limit))

\* get_articles(account_id, platform, start_date, end_date, keywords, limit,
\* offset): the lists of row ids it can return
get_articles(rows, accs, q) ==
    {Page(o, q.limit, q.offset) :
        o \in OrderedIds(rows, {i \in DOMAIN rows : RowSelected(rows[i], accs, q)})}

NoQuery == [account_id |-> 0, platform |-> "", start_date |-> 0, end_date |-> 0,
            keywords |-> <<>>, limit |-> DefaultLimit, offset |-> 0]

\* one stored article with every text of the bounded sets, searched by
\* every list of keywords
SearchInit ==
    \E title \in Strings(FieldChars, MaxFieldLen),
       content \in Strings(FieldChars, MaxFieldLen),
       summary \in Strings(FieldChars, MaxFieldLen),
       keywords \in UNION {[1..n -> Strings(KeywordChars, MaxKeywordLen)]
                           : n \in 0..MaxKeywords} :
        srch = [rows |-> <<[account_id |-> 1, title |-> title, content |-> content,
                            summary |-> summary, publish_timestamp |-> DayStart(1)]>>,
                accs |-> <<[platform |-> Platform]>>,
                q |-> [NoQuery EXCEPT !.keywords = keywords],
                result |-> <<>>, done |-> FALSE]

SearchCall ==
    /\ ~srch.done
    /\ \E r \in get_articles(srch.rows, srch.accs, srch.q) :
         srch' = [srch EXCEPT !.result = r, !.done = TRUE]
    /\ UNCHANGED nonSearchVars

SearchNext == SearchCall

SearchIdle ==
    srch = [rows |-> <<>>, accs |-> <<>>, q |-> NoQuery, result |-> <<>>, done |-> FALSE]

(***************************************************************************)
(* A SQLiteDatabase and a DatabaseORM, each on a store of its own, given   *)
(* the same calls one after the other by one thread. An account_id         *)
(* argument is a string: a positive number stands for its decimal digits,  *)
(* NonNumericId for a string that is no number.                            *)
(***************************************************************************)
NonNumericId == 0 - 1

IsNumeric(account_id) == account_id > 0

EmptyStore == [accounts |-> <<>>, articles |-> <<>>]

\* whether building the row raises before the INSERT: DatabaseORM converts
\* with int(account_id), SQLiteDatabase binds the string as it is
ConversionRaises(b, account_id) == b = "orm" /\ ~IsNumeric(account_id)

\* save_account(name, platform='wechat', details=d) run to its end
pair_save_account(b, st, name, d) ==
    LET ids == AccountIds(st.accounts, Platform, name) IN
    IF ids # {}
    THEN [st |-> [st EXCEPT !.accounts =
                     [i \in DOMAIN st.accounts |->
                         IF i \in ids
                         THEN [st.accounts[i] EXCEPT !.details =
                                  DetailsAfterExisting(b, @, d)]
                         ELSE st.accounts[i]]],
          ret |-> CHOOSE i \in ids : TRUE]
    ELSE [st |-> [st EXCEPT !.accounts =
                     Append(@, [platform |-> Platform, name |-> name, details |-> d])],
          ret |-> Len(st.accounts) + 1]

\* get_account(name=name, platform='wechat'): the id (0: None) and details
pair_get_account(b, st, name) ==
    LET r == get_account(st.accounts, Platform, name) IN
    [st |-> st,
     ret |-> [id |-> IF r.found
                     THEN CHOOSE i \in AccountIds(st.accounts, Platform, name) : TRUE
                     ELSE 0,
              details |-> r.details]]

\* the texts and the publish time of the article of a url
PairRow(account_id, url) ==
    [account_id |-> account_id, url |-> url,
     title |-> IF url = 1 THEN <<"a">> ELSE <<"b">>,
     content |-> <<>>, summary |-> <<>>, publish_timestamp |-> DayStart(url)]

\* save_article(account_id, title, url, publish_time, ...) run to its end
pair_save_article(b, st, account_id, url) ==
    IF ArticleUniqueViolated(st.articles, url)
    THEN [st |-> st, ret |-> DuplicateReturn(b) = "true"]
    ELSE IF ConversionRaises(b, account_id)
    THEN [st |-> st, ret |-> InsertFailureReturn(b) = "true"]
    ELSE [st |-> [st EXCEPT !.articles = Append(@, PairRow(account_id, url))],
          ret |-> TRUE]

\* get_articles(...): the urls of the rows returned, in order (no two stored
\* rows have one publish time, so the order is one)
pair_get_articles(b, st, q) ==
    LET ids == CHOOSE o \in get_articles(st.articles, st.accounts, q) : TRUE
    IN [st |-> st, ret |-> [i \in DOMAIN ids |-> st.articles[ids[i]].url]]

PairQueries ==
    {[NoQuery EXCEPT !.account_id = a, !.platform = p, !.keywords = k, !.limit = l] :
        a \in {0, 1}, p \in {"", Platform}, k \in {<<>>, << <<"a">> >>},
        l \in {1, DefaultLimit}}

PairCalls ==
    {[op |-> "save_account", name |-> n, d |-> d, account_id |-> 0, url |-> 0,
      q |-> NoQuery] : n \in Names, d \in DetailsSpace}
    \cup {[op |-> "get_account", name |-> n, d |-> NoDetails, account_id |-> 0,
           url |-> 0, q |-> NoQuery] : n \in Names}
    \cup {[op |-> "save_article", name |-> 0, d |-> NoDetails, account_id |-> a,
           url |-> u, q |-> NoQuery] : a \in Names \cup {NonNumericId}, u \in Urls}
    \cup {[op |-> "get_articles", name |-> 0, d |-> NoDetails, account_id |-> 0,
           url |-> 0, q |-> q] : q \in PairQueries}

\* the call applied to the store of backend b
PairApply(b, st, c) ==
    CASE c.op = "save_account" -> pair_save_account(b, st, c.name, c.d)
      [] c.op = "get_account" -> pair_get_account(b, st, c.name)
      [] c.op = "save_article" -> pair_save_article(b, st, c.account_id, c.url)
      [] c.op = "get_articles" -> pair_get_articles(b, st, c.q)

PairInit ==
    pair = [sqlite |-> EmptyStore, orm |-> EmptyStore, n |-> 0,
            op |-> "none", account_id |-> 0, lite_ret |-> 0, orm_ret |-> 0]

PairCall ==
    /\ pair.n < MaxPairOps
    /\ \E c \in PairCalls :
         LET l == PairApply("sqlite", pair.sqlite, c)
             o == PairApply("orm", pair.orm, c)
         IN pair' = [sqlite |-> l.st, orm |-> o.st, n |-> pair.n + 1,
                     op |-> c.op, account_id |-> c.account_id,
                     lite_ret |-> l.ret, orm_ret |-> o.ret]
    /\ UNCHANGED nonPairVars

PairNext == PairCall

PairIdle == PairInit

(***************************************************************************)
(* save_article and the publish_time it is given: absent (None), the       *)
(* empty string, a string that is no '%Y-%m-%d %H:%M:%S' time, or such a   *)
(* time, given by its epoch seconds t.                                     *)
(***************************************************************************)
PublishTimes ==
    {[kind |-> k, t |-> 0] : k \in {"absent", "empty", "malformed"}}
      \cup {[kind |-> "valid", t |-> DayStart(d)] : d \in Days}

\* "if publish_time:" is false for None and for ''
Truthy(publish_time) == publish_time.kind \notin {"absent", "empty"}

\* publish_timestamp of save_article, the same lines in both backends:
\* 0, the parsed time, or the time of the save when strptime raises
publish_timestamp(b, publish_time, now) ==
    IF ~Truthy(publish_time) THEN 0
    ELSE IF publish_time.kind = "valid" THEN publish_time.t
    ELSE now

NoStampCall == [b |-> "none", url |-> 0, publish_time |-> [kind |-> "absent", t |-> 0],
                now |-> 0, inserted |-> FALSE]

\* the clock starts after the publish times of the model
StampInit ==
    stamp = [rows |-> <<>>, now |-> DayStart(MaxDay) + 1, ticks |-> 0, last |-> NoStampCall]

\* time passes between two calls
StampTick ==
    /\ stamp.ticks < MaxStampClock
    /\ stamp' = [stamp EXCEPT !.now = @ + 1, !.ticks = @ + 1]
    /\ UNCHANGED nonStampVars

\* save_article(account_id, title, url, publish_time) on backend b: False for
\* a stored url, else the row is inserted
StampSave ==
    /\ \E b \in Backends \ {"legacy"}, url \in Urls, pt \in PublishTimes :
         LET dup == \E i \in DOMAIN stamp.rows : stamp.rows[i].url = url
             row == [url |-> url,
                     publish_timestamp |-> publish_timestamp(b, pt, stamp.now)]
         IN stamp' = [stamp EXCEPT
                !.rows = IF dup THEN @ ELSE Append(@, row),
                !.last = [b |-> b, url |-> url, publish_time |-> pt,
                          now |-> stamp.now, inserted |-> ~dup]]
    /\ UNCHANGED nonStampVars

StampNext == StampTick \/ StampSave

StampIdle == StampInit

(***************************************************************************)
(* WeChatSpiderRunner.batch_scrape (run.py) and run_spider                 *)
(* (scheduled_spider.py): the login gate in front of the batch and of the  *)
(* storage writes. Caller LoginCaller is the WeChatSpiderLogin that        *)
(* quick_login() creates, caller GateCaller the login_manager of the       *)
(* runner batch_scrape runs in. The storage object is the DatabaseORM that *)
(* DatabaseFactory.create_database returns.                                *)
(***************************************************************************)
\* the first and the last caller
LoginCaller == CHOOSE t \in Callers : \A u \in Callers : t <= u
GateCaller == CHOOSE t \in Callers : \A u \in Callers : u <= t

Run0 == [pc |-> "idle", entry |-> "none", use_db |-> FALSE, gate |-> "none",
         inWindow |-> FALSE, probe |-> "none", result |-> "running",
         names |-> <<>>, articles |-> <<>>, idx |-> 0, account_db_id |-> 0,
         csv |-> TRUE, saved_count |-> 0, dbLog |-> <<>>]

RunnerInit == run = Run0

RunnerIdle == run = Run0

\* is_logged_in() that trusts the cache file without the probe request
is_logged_in_cache_only(file, now, resp) == load_cache(file, now)

\* is_logged_in(): check_login_status()['isLoggedIn'], which is
\* load_cache() and validate_cache(); the file is read a second time for the
\* report, by the same thread that has just read it
is_logged_in(file, now, resp) ==
    /\ load_cache(file, now)
    /\ validate_cache([token |-> file.token, cookies |-> file.cookies], resp)

\* one call the run made on the database object: id is the account id
\* returned or passed (0 for None), ok the truth of what was returned, fault
\* whether the call ended in an except branch
DbLogEntry(op, name, url, id, ok, fault) ==
    [op |-> op, name |-> name, url |-> url, id |-> id, ok |-> ok, fault |-> fault]

\* a lookup that hands out the next free id when the account has no row
LookupIdUnchecked(entry, account_db_id, tbl, name) ==
    IF entry = "scrape_single_account" THEN account_db_id
    ELSE IF AccountIds(tbl, Platform, name) = {} THEN Len(tbl) + 1
    ELSE CHOOSE i \in AccountIds(tbl, Platform, name) : TRUE

\* the account id save_article is given: scrape_single_account passes what
\* save_account returned, batch_scrape the id of the row get_account found
\* (0: no row, the article is skipped)
LookupId(entry, account_db_id, tbl, name) ==
    IF entry = "scrape_single_account" THEN account_db_id
    ELSE IF AccountIds(tbl, Platform, name) = {} THEN 0
    ELSE CHOOSE i \in AccountIds(tbl, Platform, name) : TRUE

\* run_spider(): the accounts file is there, wechat_login() is called
RunSpider ==
    /\ run.pc = "idle"
    /\ run' = [run EXCEPT !.pc = "login", !.entry = "run_spider", !.use_db = TRUE]
    /\ UNCHANGED <<batchVars, loginVars, dbVars, filterVars, searchVars, enrichVars, pairVars, stampVars>>

\* wechat_login(): WeChatSpiderRunner().login(), quick_login(), one step of
\* WeChatSpiderLogin().login()
RunnerLogin ==
    /\ run.pc = "login"
    /\ Len(calls[LoginCaller]) = 0 \/ lpc[LoginCaller] # "idle"
    /\ \/ LoginLoadCache(LoginCaller)
       \/ LoginValidate(LoginCaller)
       \/ LoginClearCache(LoginCaller)
       \/ LoginStartBrowser(LoginCaller)
       \/ LoginScan(LoginCaller)
       \/ LoginSaveCache(LoginCaller)

\* run_spider(): "if not wechat_login(): return False", else
\* wechat_batch_scrape(...). WeChatSpiderRunner.login() is False unless
\* quick_login() handed back a token and cookies
RunSpiderAfterLogin ==
    /\ run.pc = "login"
    /\ Len(calls[LoginCaller]) = 1 /\ lpc[LoginCaller] = "idle"
    /\ IF /\ calls[LoginCaller][1].result = "true"
          /\ inst[LoginCaller].token # 0
          /\ inst[LoginCaller].cookies # 0
       THEN run' = [run EXCEPT !.pc = "gate"]
       ELSE run' = [run EXCEPT !.pc = "returned", !.result = "false"]
    /\ UNCHANGED <<batchVars, loginVars, dbVars, filterVars, searchVars, enrichVars, pairVars, stampVars>>

\* batch_scrape(accounts_file, ...) of run.py called on its own
BatchScrapeEntry ==
    /\ run.pc = "idle"
    /\ \E use_db \in BOOLEAN :
         run' = [run EXCEPT !.pc = "gate", !.entry = "batch_scrape", !.use_db = use_db]
    /\ UNCHANGED <<batchVars, loginVars, dbVars, filterVars, searchVars, enrichVars, pairVars, stampVars>>

\* WeChatSpiderRunner.batch_scrape up to the login check: an empty list of
\* accounts returns False, then "if not self.login_manager.is_logged_in():
\* return False"
RunnerGate ==
    /\ run.pc = "gate"
    /\ IF run.entry # "scrape_single_account" /\ accounts = <<>>
       THEN /\ run' = [run EXCEPT !.pc = "returned", !.result = "false"]
            /\ inst' = inst
       ELSE \E resp \in ProbeResponses :
              LET loaded == load_cache(cacheFile, clock)
                  ok == is_logged_in(cacheFile, clock, resp)
              IN /\ inst' = IF loaded
                            THEN [inst EXCEPT ![GateCaller] =
                                     [token |-> cacheFile.token,
                                      cookies |-> cacheFile.cookies]]
                            ELSE inst
                 /\ run' = [run EXCEPT
                       !.gate = "checked",
                       !.inWindow = cacheFile.exists
                                      /\ clock - cacheFile.timestamp <= CACHE_EXPIRE_HOURS,
                       !.probe = IF loaded THEN ProbeClass(resp) ELSE "none",
                       !.pc = IF ~ok THEN "returned"
                              ELSE IF run.entry = "scrape_single_account"
                              THEN "single" ELSE "batch",
                       !.result = IF ok THEN "running" ELSE "false"]
    /\ UNCHANGED <<cacheFile, clock, nextToken, lpc, calls, query>>
    /\ UNCHANGED <<batchVars, dbVars, filterVars, searchVars, enrichVars, pairVars, stampVars>>

\* batch_scrape: BatchWeChatScraper(), the four set_callback calls, then
\* batch_scraper.start_batch_scrape(config) step by step
RunnerBatch ==
    /\ run.pc = "batch"
    /\ \/ RegisterCallbacks
       \/ callbacks["progress_updated"] /\ start_batch_scrape
       \/ SeqLoop
       \/ SeqCompleted
       \/ SeqFailed
       \/ Finish
       \/ \E k \in DOMAIN task : TaskSearch(k)
       \/ \E k \in DOMAIN task : TaskFetchPage(k)
       \/ \E k \in DOMAIN task : TaskFilter(k)
       \/ \E k \in DOMAIN task : TaskContent(k)

\* batch_scrape after start_batch_scrape returned: "if db and articles" the
\* accounts and then the articles are saved, else return True
RunnerCollect ==
    /\ run.pc = "batch"
    /\ mainPc = "returned"
    /\ run' = IF run.use_db /\ all_articles # <<>>
              THEN [run EXCEPT !.pc = "save_accounts", !.names = accounts,
                               !.articles = all_articles, !.idx = 0]
              ELSE [run EXCEPT !.pc = "returned", !.result = "true",
                               !.articles = all_articles]
    /\ UNCHANGED <<batchVars, loginVars, dbVars, filterVars, searchVars, enrichVars, pairVars, stampVars>>

\* scrape_single_account(name, ...) of run.py
SingleEntry ==
    /\ run.pc = "idle"
    /\ \E use_db \in BOOLEAN :
         run' = [run EXCEPT !.pc = "gate", !.entry = "scrape_single_account",
                            !.use_db = use_db]
    /\ UNCHANGED <<batchVars, loginVars, dbVars, filterVars, searchVars, enrichVars, pairVars, stampVars>>

\* scrape_single_account from search_account to save_articles_to_csv: no
\* match returns False; else the filtered articles of the account and the
\* result of the CSV write; "if use_db and filtered_articles" the store is
\* written
SingleScrape ==
    /\ run.pc = "single"
    /\ \/ run' = [run EXCEPT !.pc = "returned", !.result = "false"]
       \/ \E r1 \in PageResponses, r2 \in PageResponses, csv \in BOOLEAN :
            LET arts == PageArticles(1, 0, r1) \o PageArticles(1, PageStep, r2)
            IN run' = IF run.use_db /\ arts # <<>>
                      THEN [run EXCEPT !.pc = "save_accounts", !.names = <<1>>,
                                       !.articles = arts, !.idx = 0, !.csv = csv]
                      ELSE [run EXCEPT !.pc = "returned", !.articles = arts,
                                       !.csv = csv,
                                       !.result = IF csv THEN "true" ELSE "false"]
    /\ UNCHANGED <<batchVars, loginVars, dbVars, filterVars, searchVars, enrichVars, pairVars, stampVars>>

\* one db.save_account(name=.., platform='wechat') of the run: the row is
\* found, or inserted, or the call ends in "except Exception" and returns
\* None. batch_scrape ignores the result; scrape_single_account keeps it and
\* saves no article when it is None
RunnerSaveAccount ==
    /\ run.pc = "save_accounts"
    /\ run.idx < Len(run.names)
    /\ LET name == run.names[run.idx + 1]
           ids == AccountIds(accountsTbl, Platform, name)
           last == run.idx + 1 = Len(run.names)
           after(id) == [run EXCEPT
               !.idx = IF last THEN 0 ELSE run.idx + 1,
               !.account_db_id = id,
               !.pc = IF ~last THEN "save_accounts"
                      ELSE IF run.entry = "scrape_single_account" /\ id = 0
                      THEN "save_articles_done" ELSE "save_articles",
               !.dbLog = Append(run.dbLog,
                                DbLogEntry("save_account", name, <<>>, id, id # 0, id = 0))]
       IN \/ /\ ids # {}
             /\ accountsTbl' = accountsTbl
             /\ run' = after(CHOOSE i \in ids : TRUE)
          \/ /\ ids = {}
             /\ accountsTbl' = Append(accountsTbl, [platform |-> Platform, name |-> name,
                                                    details |-> NoDetails])
             /\ run' = after(Len(accountsTbl) + 1)
          \/ /\ accountsTbl' = accountsTbl
             /\ run' = after(0)
    /\ UNCHANGED <<backend, articlesTbl, dbLock, dpc, dbCalls>>
    /\ UNCHANGED <<batchVars, loginVars, filterVars, searchVars, enrichVars, pairVars, stampVars>>

\* an article loop that ends at the first save_article returning False
ArticleLoopBreaksOnFailure(idx, success, n) == IF success THEN idx + 1 ELSE n

\* "for article in articles": the index after an iteration whose save_article
\* returned success; the result is only counted
ArticleLoopNext(idx, success, n) == idx + 1

\* one iteration of the article loop: batch_scrape calls db.get_account and
\* continues when it returns None (no row, or its except branch);
\* db.save_article returns False for a stored url and for a failing INSERT,
\* True after the INSERT; "if success: saved_count += 1"
RunnerSaveArticle ==
    /\ run.pc = "save_articles"
    /\ run.idx < Len(run.articles)
    /\ LET art == run.articles[run.idx + 1]
           batch == run.entry # "scrape_single_account"
           found == LookupId(run.entry, run.account_db_id, accountsTbl, art.name)
           looked(id) == IF batch
                         THEN <<DbLogEntry("get_account", art.name, art.link, id,
                                           id # 0, id = 0 /\ found # 0)>>
                         ELSE <<>>
           saved(id, ok, fault) ==
               [run EXCEPT !.idx = ArticleLoopNext(run.idx, ok, Len(run.articles)),
                           !.saved_count = IF ok THEN run.saved_count + 1
                                           ELSE run.saved_count,
                           !.dbLog = run.dbLog \o looked(id)
                                       \o <<DbLogEntry("save_article", art.name,
                                                       art.link, id, ok, fault)>>]
       IN \/ \* the account is not found, or get_account failed: continue
             /\ batch
             /\ run' = [run EXCEPT !.idx = run.idx + 1,
                                   !.dbLog = run.dbLog \o looked(0)]
             /\ articlesTbl' = articlesTbl
          \/ /\ found # 0
             /\ ArticleUniqueViolated(articlesTbl, art.link)
             /\ run' = saved(found, FALSE, FALSE)
             /\ articlesTbl' = articlesTbl
          \/ /\ found # 0
             /\ ~ArticleUniqueViolated(articlesTbl, art.link)
             /\ run' = saved(found, TRUE, FALSE)
             /\ articlesTbl' = Append(articlesTbl, ArticleRow("orm", art.link, found))
          \/ /\ found # 0
             /\ run' = saved(found, FALSE, TRUE)
             /\ articlesTbl' = articlesTbl
    /\ UNCHANGED <<backend, accountsTbl, dbLock, dpc, dbCalls>>
    /\ UNCHANGED <<batchVars, loginVars, filterVars, searchVars, enrichVars, pairVars, stampVars>>

\* the end of the article loop: batch_scrape returns True,
\* scrape_single_account what save_articles_to_csv returned
RunnerReturn ==
    /\ \/ run.pc = "save_articles" /\ run.idx = Len(run.articles)
       \/ run.pc = "save_articles_done"
    /\ run' = [run EXCEPT !.pc = "returned",
                          !.result = IF run.entry = "scrape_single_account" /\ ~run.csv
                                     THEN "false" ELSE "true"]
    /\ UNCHANGED <<batchVars, loginVars, dbVars, filterVars, searchVars, enrichVars, pairVars, stampVars>>

\* an exception of start_batch_scrape leaves batch_scrape, which has no
\* handler around the call
RunnerRaised ==
    /\ run.pc = "batch"
    /\ mainPc = "raised"
    /\ run' = [run EXCEPT !.pc = "returned", !.result = "raised"]
    /\ UNCHANGED <<batchVars, loginVars, dbVars, filterVars, searchVars, enrichVars, pairVars, stampVars>>

\* time passes before the run starts
RunnerTick == run.pc = "idle" /\ Tick

RunnerNext ==
    \/ RunnerTick
    \/ RunSpider
    \/ RunnerLogin
    \/ RunSpiderAfterLogin
    \/ BatchScrapeEntry
    \/ SingleEntry
    \/ RunnerGate
    \/ RunnerBatch
    \/ RunnerCollect
    \/ SingleScrape
    \/ RunnerSaveAccount
    \/ RunnerSaveArticle
    \/ RunnerReturn
    \/ RunnerRaised

\* batch_scraper.start_batch_scrape(config) with 'use_threading': threads > 1:
\* the steps of the pool
RunnerPool ==
    /\ run.pc = "batch"
    /\ \/ \E k \in DOMAIN task : WorkerStart(k)
       \/ \E k \in DOMAIN task : ThrCollect(k)
       \/ ThrExit

\* batch_scrape called on its own, from its entry to its return
PersistNext ==
    \/ BatchScrapeEntry
    \/ RunnerGate
    \/ RunnerBatch
    \/ RunnerPool
    \/ RunnerCollect
    \/ RunnerSaveAccount
    \/ RunnerSaveArticle
    \/ RunnerReturn
    \/ RunnerRaised

\* the config batch_scrape builds: 'use_threading': threads > 1,
\* 'max_workers': threads
PersistBatchInit ==
    \/ BatchInit(MaxPersistAccounts, FALSE, {1})
    \/ BatchInit(MaxPersistAccounts, TRUE, (1..MaxWorkers) \ {1})

\* the database file of an earlier run: empty, or account 1 with its first
\* article
RunnerDbInit ==
    /\ backend = "orm"
    /\ \/ accountsTbl = <<>> /\ articlesTbl = <<>>
       \/ /\ accountsTbl = <<[platform |-> Platform, name |-> 1, details |-> NoDetails]>>
          /\ articlesTbl = <<ArticleRow("orm", <<1, 0>>, 1)>>
    /\ dbLock = 0
    /\ dpc = [t \in DbThreads |-> "idle"]
    /\ dbCalls = [t \in DbThreads |-> <<>>]

(***************************************************************************)
(* check_login_status, is_logged_in, the accessors get_token, get_cookies  *)
(* and get_headers, and logout, called on an instance between its login()  *)
(* calls. None (no token, no cookies, no headers) is 0.                    *)
(***************************************************************************)
\* what login() last returned on instance t
LastLogin(t) == IF calls[t] = <<>> THEN "none" ELSE CurCall(t).result

\* the instance after load_cache(): token and cookies are taken from the file
\* when it returns True
AfterLoad(self, file, now) ==
    IF load_cache(file, now)
    THEN [token |-> file.token, cookies |-> file.cookies]
    ELSE self

\* "self.load_cache() and self.validate_cache()"
CacheValid(self, file, now, resp) ==
    load_cache(file, now) /\ validate_cache(AfterLoad(self, file, now), resp)

\* a status check that clears a cache it finds invalid
StatusClearsCache(file, valid) == IF valid THEN file ELSE NoFile

\* the cache file after a status check or an accessor: none of them writes
\* or removes it
StatusCacheAfter(file, valid) == file

QueryRecord(t, op, value, ok) ==
    [op |-> op, value |-> value, ok |-> ok, lastLogin |-> LastLogin(t),
     n |-> query[t].n + 1]

\* the field of the instance an accessor hands out; get_headers builds the
\* headers from get_cookies()
AccessorField == [get_token |-> "token", get_cookies |-> "cookies",
                  get_headers |-> "cookies"]

\* get_token() / get_cookies() / get_headers(): "if not self.x and not
\* (self.load_cache() and self.validate_cache()): return None; return self.x"
Accessor(t) ==
    /\ lpc[t] = "idle"
    /\ query[t].n < MaxQueries
    /\ \E op \in DOMAIN AccessorField, resp \in ProbeResponses :
         LET f == AccessorField[op] IN
         IF inst[t][f] # 0
         THEN /\ query' = [query EXCEPT ![t] = QueryRecord(t, op, inst[t][f], TRUE)]
              /\ inst' = inst
              /\ cacheFile' = cacheFile
         ELSE LET self == AfterLoad(inst[t], cacheFile, clock)
                  valid == CacheValid(inst[t], cacheFile, clock, resp)
              IN /\ query' = [query EXCEPT ![t] =
                                 QueryRecord(t, op, IF valid THEN self[f] ELSE 0, valid)]
                 /\ inst' = [inst EXCEPT ![t] = self]
                 /\ cacheFile' = StatusCacheAfter(cacheFile, valid)
    /\ UNCHANGED <<clock, nextToken, lpc, calls>>
    /\ UNCHANGED nonLoginVars

\* check_login_status() and is_logged_in(), which returns its 'isLoggedIn'
CheckLoginStatus(t) ==
    /\ lpc[t] = "idle"
    /\ query[t].n < MaxQueries
    /\ \E op \in {"check_login_status", "is_logged_in"}, resp \in ProbeResponses :
         LET self == AfterLoad(inst[t], cacheFile, clock)
             valid == CacheValid(inst[t], cacheFile, clock, resp)
         IN /\ query' = [query EXCEPT ![t] =
                            QueryRecord(t, op, IF valid THEN self.token ELSE 0, valid)]
            /\ inst' = [inst EXCEPT ![t] = self]
            /\ cacheFile' = StatusCacheAfter(cacheFile, valid)
    /\ UNCHANGED <<clock, nextToken, lpc, calls>>
    /\ UNCHANGED nonLoginVars

\* logout(): clear_cache(), self.token = None, self.cookies = None
Logout(t) ==
    /\ lpc[t] = "idle"
    /\ query[t].n < MaxQueries
    /\ cacheFile' = NoFile
    /\ inst' = [inst EXCEPT ![t] = [token |-> 0, cookies |-> 0]]
    /\ query' = [query EXCEPT ![t] = QueryRecord(t, "logout", 0, TRUE)]
    /\ UNCHANGED <<clock, nextToken, lpc, calls>>
    /\ UNCHANGED nonLoginVars

\* one instance: login() calls, and between them the other methods
StatusNext ==
    \/ Tick
    \/ LoginLoadCache(LoginCaller)
    \/ LoginValidate(LoginCaller)
    \/ LoginClearCache(LoginCaller)
    \/ LoginStartBrowser(LoginCaller)
    \/ LoginScan(LoginCaller)
    \/ LoginSaveCache(LoginCaller)
    \/ Accessor(LoginCaller)
    \/ CheckLoginStatus(LoginCaller)
    \/ Logout(LoginCaller)

(***************************************************************************)
(* Specifications                                                          *)
(***************************************************************************)
\* the parts of the program a specification leaves alone
BatchIdle ==
    /\ accounts = <<>>
    /\ config = [use_threading |-> FALSE, max_workers |-> 1, include_content |-> FALSE,
                 max_pages |-> 0, start_date |-> 1, end_date |-> 1]
    /\ callbacks = [k \in CallbackKeys |-> FALSE]
    /\ is_cancelled = FALSE
    /\ mainPc = "idle"
    /\ seqIdx = 0
    /\ all_articles = <<>>
    /\ completed_count = 0
    /\ task = <<>>
    /\ events = <<>>

LoginIdle ==
    /\ cacheFile = NoFile
    /\ clock = 0
    /\ nextToken = 2
    /\ inst = [t \in Callers |-> [token |-> 0, cookies |-> 0]]
    /\ lpc = [t \in Callers |-> "idle"]
    /\ calls = [t \in Callers |-> <<>>]
    /\ query = [t \in Callers |-> Query0]

\* sequential mode: use_threading is off
Init == BatchInit(MaxAccounts, FALSE, {1}) /\ LoginIdle /\ DbIdle /\ FilterIdle /\ RunnerIdle /\ SearchIdle /\ EnrichIdle /\ PairIdle /\ StampIdle
Next == SeqNext
Spec == Init /\ [][Next]_vars

\* the sequential batch with a page loop that is always scheduled again: a
\* listing request returns a page or raises
SpecPagingInit ==
    BatchInit(MaxPagingAccounts, FALSE, {1}) /\ LoginIdle /\ DbIdle /\ FilterIdle
        /\ RunnerIdle /\ SearchIdle /\ EnrichIdle /\ PairIdle /\ StampIdle
PagingFairness ==
    \A k \in 1..MaxPagingAccounts : WF_vars(k \in DOMAIN task /\ TaskFetchPage(k))
SpecPaging == SpecPagingInit /\ [][Next]_vars /\ PagingFairness

\* pool-parallel mode: use_threading is on
PoolInit == BatchInit(MaxPoolAccounts, TRUE, 1..MaxWorkers) /\ LoginIdle /\ DbIdle /\ FilterIdle /\ RunnerIdle /\ SearchIdle /\ EnrichIdle /\ PairIdle /\ StampIdle
SpecPool == PoolInit /\ [][PoolNext]_vars

\* callers of login() sharing the cache file
SpecLoginInit == LoginInit /\ BatchIdle /\ DbIdle /\ FilterIdle /\ RunnerIdle /\ SearchIdle /\ EnrichIdle /\ PairIdle /\ StampIdle
SpecLogin == SpecLoginInit /\ [][LoginNext]_vars

\* one WeChatSpiderLogin instance and all its methods
SpecStatus == SpecLoginInit /\ [][StatusNext]_vars

\* threads sharing one storage backend
SpecDbInit == DbInit /\ BatchIdle /\ LoginIdle /\ FilterIdle /\ RunnerIdle /\ SearchIdle /\ EnrichIdle /\ PairIdle /\ StampIdle
SpecDb == SpecDbInit /\ [][DbNext]_vars

\* filter_articles_by_date applied to every argument of the bounded sets
SpecFilterInit == FilterInit /\ BatchIdle /\ LoginIdle /\ DbIdle /\ RunnerIdle /\ SearchIdle /\ EnrichIdle /\ PairIdle /\ StampIdle
SpecFilter == SpecFilterInit /\ [][FilterNext]_vars

\* get_articles with keywords on one stored article
SpecSearchInit ==
    SearchInit /\ BatchIdle /\ LoginIdle /\ DbIdle /\ FilterIdle /\ RunnerIdle /\ EnrichIdle
        /\ PairIdle /\ StampIdle
SpecSearch == SpecSearchInit /\ [][SearchNext]_vars

\* the two interface backends side by side
SpecPairInit ==
    PairInit /\ BatchIdle /\ LoginIdle /\ DbIdle /\ FilterIdle /\ RunnerIdle /\ SearchIdle
        /\ EnrichIdle /\ StampIdle
SpecPair == SpecPairInit /\ [][PairNext]_vars

\* save_article given every kind of publish_time
SpecStampInit ==
    StampInit /\ BatchIdle /\ LoginIdle /\ DbIdle /\ FilterIdle /\ RunnerIdle /\ SearchIdle
        /\ EnrichIdle /\ PairIdle
SpecStamp == SpecStampInit /\ [][StampNext]_vars

\* get_article_content_by_url applied to every article of the bounded set,
\* next to a sequential batch that enriches what it fetched
SpecEnrichInit ==
    EnrichInit /\ BatchInit(MaxRunnerAccounts, FALSE, {1}) /\ LoginIdle /\ DbIdle /\ FilterIdle
        /\ RunnerIdle /\ SearchIdle /\ PairIdle /\ StampIdle
SpecEnrichNext == EnrichNext \/ SeqNext
SpecEnrich == SpecEnrichInit /\ [][SpecEnrichNext]_vars

\* one run of batch_scrape, entered directly or through run_spider
SpecRunnerInit ==
    RunnerInit /\ BatchInit(MaxRunnerAccounts, FALSE, {1}) /\ LoginInit /\ RunnerDbInit /\ FilterIdle
        /\ SearchIdle /\ EnrichIdle /\ PairIdle /\ StampIdle
SpecRunner == SpecRunnerInit /\ [][RunnerNext]_vars

\* batch_scrape with a cache file in place, on several accounts, a page each
SpecPersistInit ==
    RunnerInit /\ PersistBatchInit /\ config.max_pages = 1
        /\ LoginInit /\ cacheFile.exists /\ RunnerDbInit
        /\ FilterIdle /\ SearchIdle /\ EnrichIdle /\ PairIdle /\ StampIdle
SpecPersist == SpecPersistInit /\ [][PersistNext]_vars

(***************************************************************************)
(* Claims                                                                  *)
(***************************************************************************)
ValidWindow == ~(config.start_date > config.end_date)

HasEvent(e) == \E i \in DOMAIN events : events[i] = e

\* C1: failure isolation. In sequential and in pool-parallel mode, when an
\* account's _scrape_single_account raises, the exception is caught at the
\* pipeline boundary and reported through the error event, start_batch_scrape
\* does not raise, and a run that returns uncancelled has processed every
\* account of the list.
C1_FailureIsolation ==
    /\ \A k \in DOMAIN task :
          (task[k].pc = "failed" /\ task[k].collected) =>
              /\ mainPc \notin {"raised", "thr_exit_raise"}
              /\ HasEvent(ErrorEv(accounts[k]))
    /\ (mainPc = "returned" /\ ValidWindow /\ ~is_cancelled) =>
          \A k \in DOMAIN task : task[k].collected

\* C2: for accounts [A, B, C] where B's search returns no candidate and A
\* yields articles, the run does not raise once B has failed, B's error event
\* reaches the registered error callback, and an uncancelled run returns the
\* articles of A and C only and reports their number with batch_completed.
C2_ZeroCandidatesSkipped ==
    (/\ NumAccounts = 3
     /\ callbacks["error_occurred"]
     /\ \E i \in DOMAIN all_articles : all_articles[i].name = accounts[1]
     /\ task[2].search = "none"
     /\ task[2].collected)
    => /\ mainPc # "raised"
       /\ HasEvent(ErrorEv(accounts[2]))
       /\ (mainPc = "returned" /\ ~is_cancelled) =>
             /\ \A i \in DOMAIN all_articles : all_articles[i].name # accounts[2]
             /\ events[Len(events)] = CompletedEv(Len(all_articles))

\* C3: a login() call that finds the persisted credential within its age
\* window and whose probe fails transiently (an exception of the request)
\* neither deletes the cache file nor starts reauthentication.
C3_TransientProbeKeepsCredential ==
    \A t \in Callers : \A i \in DOMAIN calls[t] :
        (calls[t][i].inWindow /\ calls[t][i].probe = "transient") =>
            (~calls[t][i].cleared /\ ~calls[t][i].auth)

\* C4: single-flight reauthentication: at most one caller of login() is inside
\* the browser reauthentication flow at a time.
C4_SingleFlight ==
    Cardinality({t \in Callers : lpc[t] = "scan"}) <= 1

AuthRuns(t) == Cardinality({i \in DOMAIN calls[t] : calls[t][i].auth})

ProbeNotFailing(c) == c.probe \in {"none", "ok"}

\* C5: session reuse: when a caller has made two login() calls in sequence, the
\* second one with a persisted credential within its expiry window, and every
\* probe made in the two calls was answered base_resp.ret == 0, the two calls
\* together ran the browser flow at most once, and not at all when the first
\* call found a credential within its window too.
C5_SessionReuse ==
    \A t \in Callers :
        (/\ Len(calls[t]) = 2
         /\ calls[t][2].inWindow
         /\ ProbeNotFailing(calls[t][1])
         /\ ProbeNotFailing(calls[t][2]))
        => /\ AuthRuns(t) <= 1
           /\ calls[t][1].inWindow => AuthRuns(t) = 0

C5_Witness ==
    \E t \in Callers :
        /\ Len(calls[t]) = 2
        /\ lpc[t] = "idle"
        /\ calls[t][1].auth /\ calls[t][1].authOk /\ calls[t][1].saved
        /\ calls[t][2].inWindow /\ calls[t][2].probe = "ok"
        /\ calls[t][2].result = "true"
        /\ ~calls[t][2].auth

\* the step in which caller t leaves login() after save_cache
LeavesAfterSave(t) == lpc[t] = "save" /\ lpc'[t] = "idle"

CredentialPersisted(t) ==
    /\ cacheFile' = [exists |-> TRUE, token |-> inst[t].token,
                     cookies |-> inst[t].cookies, timestamp |-> clock]
    /\ inst[t].token # 0
    /\ cacheFile'.exists /\ clock' - cacheFile'.timestamp <= CACHE_EXPIRE_HOURS

DbCallIds == UNION {{<<t, i>> : i \in DOMAIN dbCalls[t]} : t \in DbThreads}

DbCallAt(x) == dbCalls[x[1]][x[2]]

\* the finished calls of operation op on key
DbDone(op, key) ==
    {x \in DbCallIds : /\ DbCallAt(x).op = op
                       /\ DbCallAt(x).key = key
                       /\ DbCallAt(x).ret # "pending"}

RowsWithUrl(u) == {i \in DOMAIN articlesTbl : articlesTbl[i].url = u}

RowsWithName(n) ==
    {i \in DOMAIN accountsTbl :
        accountsTbl[i].platform = Platform /\ accountsTbl[i].name = n}

InterfaceBackend == backend \in {"sqlite", "orm"}

\* C7: article idempotence in SQLiteDatabase and DatabaseORM: at most one
\* stored article row has a given url, and a save_article call made when its
\* url is stored already returns False and does not raise.
C7_ArticleIdempotence ==
    InterfaceBackend =>
        /\ \A u \in Urls : Cardinality(RowsWithUrl(u)) <= 1
        /\ \A x \in DbCallIds :
              (/\ DbCallAt(x).op = "save_article"
               /\ DbCallAt(x).stored
               /\ DbCallAt(x).ret # "pending")
              => DbCallAt(x).ret = "false"

C7_Witness ==
    /\ InterfaceBackend
    /\ \E t \in DbThreads :
          /\ Len(dbCalls[t]) = 2
          /\ dbCalls[t][1].op = "save_article" /\ dbCalls[t][1].ret = "true"
          /\ dbCalls[t][2].op = "save_article" /\ dbCalls[t][2].ret = "false"
          /\ dbCalls[t][2].key = dbCalls[t][1].key
          /\ dbCalls[t][2].stored
          /\ Cardinality(RowsWithUrl(dbCalls[t][1].key)) = 1

\* the step in which save_article of thread t finds its url stored and returns
DuplicateStep(t) ==
    /\ dpc[t] = "select" /\ dpc'[t] = "idle"
    /\ DbCur(t).op = "save_article"
    /\ RowsWithUrl(DbCur(t).key) # {}

C10_UrlUniqueness ==
    InterfaceBackend =>
        \A u \in Urls :
            /\ Cardinality(RowsWithUrl(u)) <= 1
            /\ (\E x \in DbDone("save_article", u) : ~DbCallAt(x).fault) =>
                  /\ Cardinality(RowsWithUrl(u)) = 1
                  /\ Cardinality({x \in DbDone("save_article", u) :
                                     DbCallAt(x).ret = "true"}) = 1
                  /\ \A x \in DbDone("save_article", u) :
                        DbCallAt(x).ret \in {"true", "false"}

C10_Witness ==
    /\ backend = "orm"
    /\ \E u \in Urls : \E x, y \in DbDone("save_article", u) :
          /\ x[1] # y[1]
          /\ ~DbCallAt(x).stored /\ ~DbCallAt(y).stored
          /\ DbCallAt(x).ret = "true" /\ DbCallAt(y).ret = "false"

\* the step in which save_account of thread t finds its row stored and returns
ExistingAccountStep(t) ==
    /\ dpc[t] = "select" /\ dpc'[t] = "idle"
    /\ DbCur(t).op = "save_account"
    /\ RowsWithName(DbCur(t).key) # {}

\* the shallow union of two details dicts, the keys of new winning
ShallowUnion(old, new) ==
    [k \in DetailKeys |-> IF new[k] # 0 THEN new[k] ELSE old[k]]

\* C11: save_account is an upsert by (platform, name): a call that finds the
\* row stored returns its id, adds no row, and leaves as stored details the
\* shallow union of the old and the submitted details, new keys winning, which
\* is what get_account returns afterwards.
C11_UpsertMergesDetails ==
    [][\A t \in DbThreads :
          ExistingAccountStep(t) =>
             /\ Len(accountsTbl') = Len(accountsTbl)
             /\ dbCalls'[t][Len(dbCalls'[t])].ret = "id"
             /\ dbCalls'[t][Len(dbCalls'[t])].id \in RowsWithName(DbCur(t).key)
             /\ \A i \in RowsWithName(DbCur(t).key) :
                   /\ accountsTbl'[i].details =
                         ShallowUnion(accountsTbl[i].details, DbCur(t).d)
                   /\ get_account(accountsTbl', Platform, DbCur(t).key).details =
                         ShallowUnion(accountsTbl[i].details, DbCur(t).d)]_vars

\* C12: in SQLiteDatabase and DatabaseORM save_article returns True only when
\* it inserted a row and False only when its url is stored, and a call whose
\* write failed for another reason returns neither of the two.
C12_FalseMeansDuplicate ==
    InterfaceBackend =>
        \A x \in DbCallIds :
            (DbCallAt(x).op = "save_article" /\ DbCallAt(x).ret # "pending") =>
                /\ DbCallAt(x).ret \in {"true", "false"} =>
                      RowsWithUrl(DbCallAt(x).key) # {}
                /\ DbCallAt(x).fault => DbCallAt(x).ret \notin {"true", "false"}

\* the articles of a list that an operator keeps
KeptBy(articles, Keep(_)) == SelectSeq(articles, Keep)

\* C13: date filter boundary: with both dates given, filter_articles_by_date
\* returns, in their order, the articles whose timestamp is non-zero and lies
\* between start_date 00:00:00 and end_date 23:59:59, both included; the
\* articles one second before or after are dropped.
C13_DateFilterBoundary ==
    (filt.done /\ filt.start_date # 0 /\ filt.end_date # 0) =>
        filt.result =
            KeptBy(filt.articles,
                   LAMBDA a : /\ a.publish_timestamp # 0
                              /\ a.publish_timestamp >= filt.start_date * 86400
                              /\ a.publish_timestamp <= filt.end_date * 86400 + 86399)

C13_Witness ==
    /\ filt.done
    /\ filt.start_date # 0 /\ filt.end_date = filt.start_date
    /\ Len(filt.articles) = 2
    /\ filt.articles[1].publish_timestamp = filt.start_date * 86400
    /\ filt.articles[2].publish_timestamp = filt.end_date * 86400 + 86400
    /\ filt.result = <<filt.articles[1]>>

\* C14: a date window with start_date > end_date is rejected before any network
\* activity: start_batch_scrape starts no account pipeline, reports the error
\* and returns an empty list.
C14_InvalidWindowRejected ==
    (mainPc # "idle" /\ ~ValidWindow) =>
        /\ \A k \in DOMAIN task : task[k].pc = "new"
        /\ all_articles = <<>>
        /\ mainPc = "returned"
        /\ HasEvent(ErrorEv(0))

LogHas(k, types) == \E i \in DOMAIN task[k].log : task[k].log[i].type \in types

\* C15: a page budget of 0 or less means fetch nothing: the account's
\* get_account_articles call issues no listing request and reports no error,
\* it returns the empty list, and in the batch the account ends in the
\* completed state, not in the error state, with no article.
C15_NoPagesNoFetch ==
    config.max_pages <= 0 =>
        \A k \in DOMAIN task :
            /\ ~LogHas(k, {"list_request", "error"})
            /\ task[k].fetched = <<>> /\ task[k].result = <<>>
            /\ task[k].search = "found" => task[k].pc # "failed"
            /\ (task[k].search = "found" /\ task[k].collected) =>
                  /\ HasEvent(StatusEv(accounts[k], "completed"))
                  /\ ~HasEvent(StatusEv(accounts[k], "error"))
                  /\ \A i \in DOMAIN all_articles : all_articles[i].name # accounts[k]

C15_Witness ==
    /\ config.max_pages <= 0
    /\ mainPc = "returned"
    /\ ~is_cancelled
    /\ NumAccounts >= 1
    /\ \A k \in DOMAIN task : task[k].search = "found" /\ task[k].collected
    /\ task[1].log = <<PageProgressEv(accounts[1], config.max_pages, config.max_pages)>>
    /\ events[Len(events)] = CompletedEv(0)

\* C16: start_batch_scrape with an empty accounts list and a valid date window
\* returns an empty list and emits batch_completed(0) and no other event.
C16_EmptyAccounts ==
    (NumAccounts = 0 /\ ValidWindow /\ mainPc = "returned" /\ ~is_cancelled) =>
        /\ all_articles = <<>>
        /\ events = <<CompletedEv(0)>>

\* C17: progress reaches 100% exactly once: when a run over n >= 1 accounts that
\* was not cancelled has ended, every progress_updated call had total = n and
\* exactly one had done = total, also when an account ended in error; and an
\* account's get_account_articles call that has ended has reported
\* (max_pages, max_pages) exactly once.
C17_ProgressCompletesOnce ==
    (mainPc \in {"returned", "raised"} /\ ValidWindow /\ ~is_cancelled
        /\ NumAccounts >= 1) =>
        /\ \A i \in DOMAIN events :
              events[i].type = "progress_updated" => events[i].total = NumAccounts
        /\ Cardinality({i \in DOMAIN events :
                           events[i] = ProgressEv(NumAccounts, NumAccounts)}) = 1
        /\ \A k \in DOMAIN task :
              task[k].pc = "done" =>
                 Cardinality({i \in DOMAIN task[k].log :
                      task[k].log[i] = PageProgressEv(accounts[k], config.max_pages,
                                                      config.max_pages)}) = 1

\* the positions of an account pipeline that has not been started
NotStarted == {"new", "queued"}

\* C18: cooperative cancellation: while the flag set by cancel_batch_scrape is
\* up, no account that has not been started is started, and no account
\* pipeline passes from one stage (resolve, fetch, filter, enrich) into the
\* next; a pipeline stays in its stage or ends.
C18_CooperativeCancellation ==
    [][is_cancelled =>
          \A k \in DOMAIN task :
              \/ task'[k].pc = task[k].pc
              \/ task'[k].pc \in {"done", "failed"}
              \/ task[k].pc \in NotStarted /\ task'[k].pc \in NotStarted]_vars

\* the step in which a listing request of account k raises
ListingFails(k) ==
    /\ task[k].pc = "fetch"
    /\ task'[k].log # task[k].log
    /\ task'[k].log[Len(task'[k].log)].type = "error"

\* C19: when a listing request fails on a page after the first, the articles
\* collected from the pages before it are kept as the account's listing, and
\* no further page of the account is requested.
C19_PartialPagesKept ==
    [][\A k \in DOMAIN task :
          (ListingFails(k) /\ task[k].page >= 1) =>
             /\ task'[k].fetched = task[k].fetched
             /\ task'[k].pc = "filter"]_vars

(***************************************************************************)
(* C20                                                                     *)
(***************************************************************************)
\* the batch scraper has done nothing and the run has made no call on the
\* store
NothingStarted ==
    /\ mainPc = "idle"
    /\ events = <<>>
    /\ \A k \in DOMAIN task : task[k] = Task0
    /\ run.dbLog = <<>>
    /\ run.articles = <<>>

\* the credential batch_scrape looked for was not there: no cache file, a
\* cache file older than the window, or a probe that did not answer ret = 0
NoValidCredential ==
    /\ run.gate = "checked"
    /\ ~(run.inWindow /\ run.probe = "ok")

\* run_spider's wechat_login() has returned False
SpiderLoginFailed ==
    /\ run.entry = "run_spider"
    /\ Len(calls[LoginCaller]) = 1
    /\ calls[LoginCaller][1].result = "false"

\* C20: when batch_scrape finds no valid credential (cache file missing,
\* expired, or rejected by the probe) it returns False with no account
\* searched or fetched and nothing stored, and when the login of run_spider
\* fails run_spider never reaches batch_scrape.
C20_AuthErrorIsFatal ==
    /\ NoValidCredential => run.result = "false" /\ NothingStarted
    /\ SpiderLoginFailed => run.gate = "none" /\ run.pc \in {"login", "returned"}
                            /\ NothingStarted

\* batch_scrape has returned False on a credential the platform had revoked,
\* with an account waiting to be scraped
C20_Witness ==
    /\ NoValidCredential
    /\ run.probe = "revoked"
    /\ run.pc = "returned"
    /\ accounts # <<>>

(***************************************************************************)
(* C21                                                                     *)
(***************************************************************************)
RunLog(op) == {j \in DOMAIN run.dbLog : run.dbLog[j].op = op}

\* C21: every stored article carries the id of a stored account row, the
\* row of the account the article belongs to; in a run of batch_scrape or
\* scrape_single_account every save_article call comes after a save_account
\* call for the article's account; and an article whose account get_account
\* did not find is never handed to save_article.
C21_ForeignKeyDiscipline ==
    /\ \A i \in DOMAIN articlesTbl :
         /\ articlesTbl[i].account \in DOMAIN accountsTbl
         /\ accountsTbl[articlesTbl[i].account].name = articlesTbl[i].url[1]
    /\ \A j \in RunLog("save_article") :
         \E i \in RunLog("save_account") :
            i < j /\ run.dbLog[i].name = run.dbLog[j].name
    /\ \A j \in RunLog("get_account") :
         ~run.dbLog[j].ok =>
            ~\E k \in RunLog("save_article") : run.dbLog[k].url = run.dbLog[j].url

\* a finished run in which save_account failed, the account had no row and
\* its article was skipped
C21_Witness ==
    /\ run.pc = "returned"
    /\ \E j \in RunLog("get_account") : ~run.dbLog[j].ok /\ ~run.dbLog[j].fault
    /\ \E i \in RunLog("save_account") : run.dbLog[i].fault

(***************************************************************************)
(* C22                                                                     *)
(***************************************************************************)
BatchPersistence == run.entry \in {"batch_scrape", "run_spider"} /\ run.names # <<>>

\* every row of the articles table is still there after the step
RowsKept ==
    /\ Len(articlesTbl') >= Len(articlesTbl)
    /\ \A i \in DOMAIN articlesTbl : articlesTbl'[i] = articlesTbl[i]

\* C22: in the persistence phase of batch_scrape no step removes or changes
\* a stored article, whatever save_article returned; once the phase is over
\* every article of the batch was looked up and, when its account was found,
\* handed to save_article; and saved_count is the number of save_article
\* calls that returned True.
C22_PersistErrorContained ==
    /\ [][RowsKept]_vars
    /\ [](BatchPersistence =>
            /\ run.saved_count =
                 Cardinality({j \in RunLog("save_article") : run.dbLog[j].ok})
            /\ run.pc = "returned" =>
                 \A k \in DOMAIN run.articles :
                    \E j \in RunLog("get_account") :
                       /\ run.dbLog[j].url = run.articles[k].link
                       /\ run.dbLog[j].ok =>
                            \E h \in RunLog("save_article") :
                               run.dbLog[h].url = run.articles[k].link)

\* a finished batch in which a save_article call failed and a later one
\* stored its article
C22_Witness ==
    /\ BatchPersistence
    /\ run.pc = "returned"
    /\ \E j \in RunLog("save_article"), k \in RunLog("save_article") :
          j < k /\ ~run.dbLog[j].ok /\ run.dbLog[j].fault /\ run.dbLog[k].ok

(***************************************************************************)
(* C23                                                                     *)
(***************************************************************************)
SearchedRow == srch.rows[1]

SearchedFields == {SearchedRow.title, SearchedRow.content, SearchedRow.summary}

Returned == srch.result # <<>>

\* keyword is a substring of field, character by character
Substring(keyword, field) ==
    \E k \in 0..Len(field) :
       /\ k + Len(keyword) <= Len(field)
       /\ \A i \in DOMAIN keyword : field[k + i] = keyword[i]

\* keyword occurs in field as the pattern %keyword% reads it: each character
\* of the keyword other than "%" sits on a character of the field that is
\* the same up to the case of ASCII letters, or on any character when it is
\* "_"; neighbours in the keyword sit on neighbours in the field, and the
\* order of the keyword is kept across a "%"
Occurs(keyword, field) ==
    \E f \in [DOMAIN keyword -> 0..Len(field)] :
       /\ \A i \in DOMAIN keyword :
             IF keyword[i] = "%" THEN f[i] = 0
             ELSE /\ f[i] >= 1
                  /\ keyword[i] = "_" \/ Fold(keyword[i]) = Fold(field[f[i]])
       /\ \A i \in DOMAIN keyword :
             (i + 1 \in DOMAIN keyword /\ keyword[i] # "%" /\ keyword[i + 1] # "%")
                => f[i + 1] = f[i] + 1
       /\ \A i, j \in DOMAIN keyword :
             (i < j /\ keyword[i] # "%" /\ keyword[j] # "%") => f[i] < f[j]

\* the claim as stated: with keywords, the article is returned iff some
\* keyword is a substring of its title, of its content and of its summary
C23_Original ==
    (srch.done /\ srch.q.keywords # <<>>) =>
        (Returned <=>
            \E i \in DOMAIN srch.q.keywords :
               \A field \in SearchedFields : Substring(srch.q.keywords[i], field))

\* C23 as amended: with a non-empty keyword list an article is returned iff
\* some keyword occurs in at least one of its title, content and summary, as
\* the pattern %keyword% reads it; with no keywords every article is
\* returned.
C23_KeywordFilter ==
    srch.done =>
        (Returned <=>
            \/ srch.q.keywords = <<>>
            \/ \E i \in DOMAIN srch.q.keywords :
                  \E field \in SearchedFields : Occurs(srch.q.keywords[i], field))

\* an article returned for a keyword found in its summary alone
C23_Witness ==
    /\ srch.done
    /\ Returned
    /\ Len(srch.q.keywords) = 1
    /\ Occurs(srch.q.keywords[1], SearchedRow.summary)
    /\ ~Occurs(srch.q.keywords[1], SearchedRow.title)
    /\ ~Occurs(srch.q.keywords[1], SearchedRow.content)

(***************************************************************************)
(* C24                                                                     *)
(***************************************************************************)
ErrorSentinels == {get_article_content(o) : o \in FailedOutcomes}

\* b is a with at most another content
SameButContent(a, b) ==
    /\ DOMAIN b = DOMAIN a
    /\ \A f \in DOMAIN a \ {"content"} : b[f] = a[f]

\* one iteration of the content loop of account k
ContentStep(k) ==
    /\ task[k].pc = "content"
    /\ ~is_cancelled
    /\ task'[k] # task[k]

\* C24: get_article_content_by_url returns the article it was given for
\* every outcome of the content request, with no field other than content
\* changed, and with an error string as content when the request failed; in
\* a batch an iteration of the content loop changes the content of its
\* article only and goes on to the next article or to the end of the
\* account, whatever the outcome, and an account with an article whose
\* enrichment failed is reported completed, never in error.
C24_EnricherNeverRaises ==
    /\ [](enr.done =>
            /\ SameButContent(enr.article, enr.result)
            /\ (enr.has_headers /\ enr.outcome \in FailedOutcomes)
                  => enr.result.content \in ErrorSentinels)
    /\ [][\A k \in DOMAIN task :
            ContentStep(k) =>
               LET i == task[k].idx IN
               /\ Len(task'[k].result) = Len(task[k].result)
               /\ \A j \in DOMAIN task[k].result :
                     IF j = i
                     THEN SameButContent(task[k].result[j], task'[k].result[j])
                     ELSE task'[k].result[j] = task[k].result[j]
               /\ task'[k].idx = i + 1
               /\ task'[k].pc = IF i < Len(task[k].result) THEN "content" ELSE "done"]_vars
    /\ [](\A j \in DOMAIN all_articles :
            all_articles[j].content \in ErrorSentinels =>
               /\ HasEvent(StatusEv(all_articles[j].name, "completed"))
               /\ ~HasEvent(StatusEv(all_articles[j].name, "error")))

\* the enricher was called on a request that failed, and a batch has
\* returned an article with an error string followed by one with its text
C24_Witness ==
    /\ enr.done /\ enr.has_headers /\ enr.outcome \in FailedOutcomes
    /\ mainPc = "returned"
    /\ \E i, j \in DOMAIN all_articles :
          /\ i < j
          /\ all_articles[i].content \in ErrorSentinels
          /\ all_articles[j].content = "text"

(***************************************************************************)
(* C25: for every sequence of save_account, save_article, get_account and  *)
(* get_articles calls applied to SQLiteDatabase and to DatabaseORM side by *)
(* side from empty stores, both return the same result at every step.      *)
(***************************************************************************)
C25_BackendsInterchangeable == pair.lite_ret = pair.orm_ret
(***************************************************************************)
(* C26: in pool-parallel mode every account of the input list is submitted *)
(* to the pool exactly once, and at every moment at most                   *)
(* min(max_workers, number of accounts) pipelines are executing;           *)
(* pool-parallel mode is used only when use_threading is set and there is  *)
(* more than one account, otherwise the accounts run sequentially.         *)
(***************************************************************************)
PoolMode == mainPc \in {"thr_wait", "thr_exit", "thr_exit_raise"}

SequentialMode == mainPc \in {"seq_loop", "seq_run"}

\* a work item enters the queue only from "new", all of them in one step, and
\* none is new again afterwards
SubmittedOnce ==
    \A k \in DOMAIN task :
        /\ (task[k].pc # "queued" /\ task'[k].pc = "queued")
              => /\ task[k].pc = "new"
                 /\ \A j \in DOMAIN task : task[j].pc = "new" /\ task'[j].pc = "queued"
        /\ task[k].pc # "new" => task'[k].pc # "new"

C26_WorkerPoolBound ==
    /\ [][SubmittedOnce]_vars
    /\ [](PoolMode =>
            /\ \A k \in DOMAIN task : task[k].pc # "new"
            /\ Cardinality({k \in DOMAIN task : Executing(k)})
                  <= Min(config.max_workers, NumAccounts)
            /\ config.use_threading /\ NumAccounts > 1)
    /\ [](SequentialMode =>
            /\ ~(config.use_threading /\ NumAccounts > 1)
            /\ \A k \in DOMAIN task : task[k].pc # "queued")

C26_Witness ==
    /\ PoolMode
    /\ config.max_workers < NumAccounts
    /\ Cardinality({k \in DOMAIN task : Executing(k)}) = config.max_workers
    /\ \E k \in DOMAIN task : task[k].pc = "queued"
(***************************************************************************)
(* C27: in sequential mode the accounts are processed one at a time in     *)
(* input order (an account's first stage starts only after the account     *)
(* before it reached completed or error), the returned list is the         *)
(* concatenation of the per-account results in input order, and the        *)
(* inter-account delay is taken only after an account that completed and   *)
(* is not the last one.                                                    *)
(***************************************************************************)
Terminal(a) ==
    \E p \in DOMAIN events :
        events[p] \in {StatusEv(a, "completed"), StatusEv(a, "error")}

OneAtATime ==
    /\ Cardinality({k \in DOMAIN task : Executing(k)}) <= 1
    /\ \A k \in DOMAIN task :
         task[k].pc # "new" => \A j \in 1..(k - 1) : Terminal(accounts[j])

\* the list grows only by the whole result of the account the loop is at
ExtendsInOrder ==
    all_articles' # all_articles =>
        /\ task[seqIdx + 1].pc = "done"
        /\ all_articles' = all_articles \o task[seqIdx + 1].result
        /\ seqIdx' = seqIdx + 1

InInputOrder ==
    /\ \A i, j \in DOMAIN all_articles :
         i < j => all_articles[i].name <= all_articles[j].name
    /\ \A i \in DOMAIN all_articles : all_articles[i].name <= seqIdx

DelayOnlyAfterSuccess ==
    \A p \in DOMAIN events :
        events[p].type = "sleep" =>
            /\ p > 1
            /\ events[p - 1] = StatusEv(events[p].account, "completed")
            /\ events[p].account # accounts[NumAccounts]

C27_SequentialOrder ==
    /\ [](OneAtATime /\ InInputOrder /\ DelayOnlyAfterSuccess)
    /\ [][ExtendsInOrder]_vars

C27_Witness ==
    /\ mainPc = "returned"
    /\ NumAccounts > 2
    /\ SleepEv(accounts[2]) \in {events[p] : p \in DOMAIN events}
    /\ \E i, j \in DOMAIN all_articles :
         all_articles[i].name < all_articles[j].name

(***************************************************************************)
(* C28: for every account of a run, in both modes, the account_status      *)
(* events of the account are searching, fetching, filtering, optionally    *)
(* content, in this order, followed by exactly one terminal status,        *)
(* completed or error; no stage event follows the terminal status and no   *)
(* account receives both.                                                  *)
(***************************************************************************)
StageOrder == <<"searching", "fetching", "filtering", "content">>

TerminalStatuses == {"completed", "error"}

IsStatusOf(e, a) ==
    /\ e.type = "account_status"
    /\ e.account = a
    /\ e.status \in TerminalStatuses \cup {StageOrder[i] : i \in DOMAIN StageOrder}

\* the stage and terminal statuses of account a, in the order of the events
StatusesOf(a) ==
    LET sel == SelectSeq(events, LAMBDA e : IsStatusOf(e, a))
    IN [i \in DOMAIN sel |-> sel[i].status]

\* stages in their order, then at most one terminal status and nothing more
WellOrdered(s) ==
    \A i \in DOMAIN s :
        IF s[i] \in TerminalStatuses
        THEN i = Len(s) /\ i > 1
        ELSE i <= Len(StageOrder) /\ s[i] = StageOrder[i]

RunEnded == mainPc \in {"returned", "raised"}

C28_PerAccountStateMachine ==
    \A k \in DOMAIN task :
        LET s == StatusesOf(accounts[k]) IN
        /\ WellOrdered(s)
        /\ (RunEnded /\ s # <<>>) => s[Len(s)] \in TerminalStatuses

(***************************************************************************)
(* C29: get_account_articles requests the offsets 0, 5, 10, ... in         *)
(* increasing order, makes at most max_pages listing requests (none when   *)
(* max_pages is not positive), makes no request after the first empty      *)
(* page, and terminates; with pages of at most 5 articles the list of one  *)
(* account has at most 5 * max_pages entries and the run result at most    *)
(* (number of accounts) * max_pages * 5.                                   *)
(***************************************************************************)
ListRequests(k) == SelectSeq(task[k].log, LAMBDA e : e.type = "list_request")

PageBudget == IF config.max_pages > 0 THEN config.max_pages ELSE 0

InPageLoop(k) == k \in DOMAIN task /\ task[k].pc = "fetch"

PaginationBounds ==
    /\ \A k \in DOMAIN task :
         /\ \A i \in DOMAIN ListRequests(k) :
              ListRequests(k)[i].start = (i - 1) * PageStep
         /\ Len(ListRequests(k)) <= PageBudget
         /\ Len(task[k].fetched) <= PageStep * PageBudget
         /\ Len(task[k].result) <= PageStep * PageBudget
    /\ Len(all_articles) <= NumAccounts * PageBudget * PageStep

\* a request that brought no article is the last one of the call
StopsAtEmptyPage ==
    \A k \in DOMAIN task :
        /\ (Len(ListRequests(k))' > Len(ListRequests(k))
               /\ Len(task'[k].fetched) <= Len(task[k].fetched))
              => task'[k].pc # "fetch"
        /\ task[k].pc # "fetch" => ListRequests(k)' = ListRequests(k)

DelayTypes == {"request_delay", "page_sleep"}

C30_RateLimitingOrder ==
    \A k \in DOMAIN task :
        \A i \in DOMAIN task[k].log :
            task[k].log[i].type = "list_request" =>
                /\ i > 1
                /\ task[k].log[i - 1].type \in DelayTypes
                /\ task[k].log[i - 1].account = task[k].log[i].account

C30_Witness ==
    \E k \in DOMAIN task :
        /\ Len(ListRequests(k)) > 1
        /\ \E i \in DOMAIN task[k].log : task[k].log[i].type = "page_sleep"
        /\ task[k].log[2].type = "request_delay"
        /\ task[k].log[3].type = "list_request"

(***************************************************************************)
(* C31: after batch_scrape with persistence an account row exists for a    *)
(* name only if the name was successfully resolved and fetched; a name     *)
(* whose resolve returned zero candidates or whose pipeline errored gets   *)
(* no row. No operation ever deletes an account or article row.            *)
(***************************************************************************)
\* the pipeline of name n found the account, no listing request of it
\* failed, and it returned
ResolvedAndFetched(n) ==
    /\ n \in DOMAIN task
    /\ task[n].search = "found"
    /\ ~LogHas(n, {"error"})
    /\ task[n].pc = "done"

IsPrefixOf(s, t) == Len(s) <= Len(t) /\ \A i \in DOMAIN s : t[i] = s[i]

RowCreatedLazily ==
    Len(accountsTbl') > Len(accountsTbl) =>
        ResolvedAndFetched(accountsTbl'[Len(accountsTbl')].name)

NeverDeleted ==
    /\ \A i \in DOMAIN accountsTbl :
         i \in DOMAIN accountsTbl' /\ accountsTbl'[i].name = accountsTbl[i].name
    /\ IsPrefixOf(articlesTbl, articlesTbl')

C31_LazyAccountCreation == [][RowCreatedLazily /\ NeverDeleted]_vars

(***************************************************************************)
(* C32: save_article stores publish_timestamp equal to the epoch seconds   *)
(* parsed from publish_time when it parses and equal to the time of the    *)
(* save when parsing fails; the stored field is never 0, for any           *)
(* publish_time, an empty or absent one included.                          *)
(***************************************************************************)
C32_PublishTimestampOnSave ==
    stamp.last.inserted =>
        LET stored == stamp.rows[Len(stamp.rows)].publish_timestamp IN
        /\ stored = IF stamp.last.publish_time.kind = "valid"
                    THEN stamp.last.publish_time.t ELSE stamp.last.now
        /\ stored # 0

(***************************************************************************)
(* C33: in every run that is not cancelled and has a valid date window,    *)
(* batch_completed is invoked exactly once, after the terminal status of   *)
(* every account and after aggregation, with the length of the list that   *)
(* start_batch_scrape returns.                                             *)
(***************************************************************************)
CompletedAt == {i \in DOMAIN events : events[i].type = "batch_completed"}

C33_BatchCompletedProtocol ==
    /\ Cardinality(CompletedAt) <= 1
    /\ (RunEnded /\ ValidWindow /\ ~is_cancelled) =>
          /\ Cardinality(CompletedAt) = 1
          /\ \A i \in CompletedAt :
                /\ events[i].total = Len(all_articles)
                /\ \A k \in DOMAIN task :
                      \E j \in 1..(i - 1) :
                          events[j] \in {StatusEv(accounts[k], "completed"),
                                         StatusEv(accounts[k], "error")}
                /\ \A j \in DOMAIN events :
                      j > i => events[j].type # "account_status"

(***************************************************************************)
(* C34: login() never returns success on the strength of a persisted       *)
(* credential older than cache_expire_hours: for such a credential the     *)
(* probe is not performed, the cache is cleared and reauthentication is    *)
(* attempted; a credential within the window is used only after the probe  *)
(* has succeeded in that same call.                                        *)
(***************************************************************************)
LoginCalls == {<<t, i>> : t \in Callers, i \in 1..MaxCalls}

IsCall(c) == c[2] <= Len(calls[c[1]])

CallAt(c) == calls[c[1]][c[2]]

CallReturned(c) == CallAt(c).result # "running"

C35_NoStaleCredential ==
    \A t \in Callers :
        (query[t].op \in DOMAIN AccessorField /\ query[t].lastLogin = "false") =>
            query[t].value = 0

(***************************************************************************)
(* C36: check_login_status() / is_logged_in() / get_token() never delete   *)
(* or rewrite the cache file and never start reauthentication, whatever    *)
(* the age of the credential and whatever the probe returns; only login()  *)
(* and logout() change the cache file.                                     *)
(***************************************************************************)
StatusOps == {"check_login_status", "is_logged_in", "get_token", "get_cookies",
              "get_headers"}

\* the step is a call of op-set ops on instance t
QueryStep(t, ops) == query'[t] # query[t] /\ query'[t].op \in ops

StatusReadOnly ==
    \A t \in Callers :
        QueryStep(t, StatusOps) =>
            /\ cacheFile' = cacheFile
            /\ lpc' = lpc
            /\ calls' = calls

OnlyLoginAndLogoutWrite ==
    cacheFile' # cacheFile =>
        \E t \in Callers :
            \/ QueryStep(t, {"logout"})
            \/ lpc[t] \in {"clear", "save"} /\ lpc'[t] # lpc[t]

C36_StatusChecksReadOnly == [][StatusReadOnly /\ OnlyLoginAndLogoutWrite]_vars

\* a status check on an expired file, and one whose probe was rejected
C36_Witness ==
    \E t \in Callers :
        /\ query[t].op \in {"check_login_status", "is_logged_in"}
        /\ ~query[t].ok
        /\ cacheFile.exists
        /\ clock - cacheFile.timestamp > CACHE_EXPIRE_HOURS

(***************************************************************************)
(* C37: for two login() calls racing on the same cache file, under every   *)
(* interleaving, if one call reauthenticates and saves the cache, then     *)
(* after both calls have returned the cache file exists and holds a        *)
(* credential one of the calls obtained. The race is taken where it is     *)
(* certain: each caller has made one call, and neither call found a file,  *)
(* so a file removed by a clear_cache() is one the other call saved.       *)
(***************************************************************************)
BothReturnedOnce ==
    \A t \in Callers :
        /\ lpc[t] = "idle"
        /\ Len(calls[t]) = 1
        /\ calls[t][1].result # "running"

FoundNoFile(c) == ~c.inWindow /\ ~c.expired

C37_FreshCredentialSurvives ==
    (/\ BothReturnedOnce
     /\ \A t \in Callers : FoundNoFile(calls[t][1])
     /\ \E t \in Callers : calls[t][1].saved) =>
        /\ cacheFile.exists
        /\ \E t \in Callers :
              calls[t][1].authOk /\ cacheFile.token = inst[t].token

(***************************************************************************)
(* C38: in a pool run that is not cancelled, under every order in which    *)
(* the workers complete, the returned list holds the result of every       *)
(* account whose pipeline returned normally exactly once (each result is   *)
(* appended whole when its account is collected, an account is collected   *)
(* once, and at the return every account is collected), and                *)
(* progress_updated is called by the calling thread only, with done        *)
(* counting 1, 2, ..., n.                                                  *)
(***************************************************************************)
PoolRun == config.use_threading /\ NumAccounts > 1

ProgressCalls == SelectSeq(events, LAMBDA e : e.type = "progress_updated")

CountedUp(m) == ProgressCalls = [i \in 1..m |-> ProgressEv(i, NumAccounts)]

\* the list changes only by the whole result of an account being collected
CollectsWholeResult ==
    /\ all_articles' # all_articles =>
         \E k \in DOMAIN task :
            /\ task[k].pc = "done"
            /\ ~task[k].collected /\ task'[k].collected
            /\ all_articles' = all_articles \o task[k].result
    /\ \A k \in DOMAIN task :
         /\ task[k].collected => k \in DOMAIN task' /\ task'[k].collected
         /\ task[k].pc = "done" /\ ~task[k].collected /\ task'[k].collected
               => all_articles' = all_articles \o task[k].result

\* a step that reports progress is a step of the as_completed loop
ProgressFromCaller ==
    ProgressCalls' # ProgressCalls =>
        /\ completed_count' = completed_count + 1
        /\ ProgressCalls' = ProgressCalls
                \o <<ProgressEv(completed_count', NumAccounts)>>
        /\ \A k \in DOMAIN task :
             task'[k].pc = task[k].pc /\ task'[k].log = task[k].log

CsvAt == {i \in DOMAIN events : events[i].type = "csv_saved"}

CancelledRunReturnsQuietly ==
    RunEnded /\ is_cancelled =>
        /\ mainPc = "returned"
        /\ CompletedAt = {}
        /\ CsvAt = {}

FlagResetAtStart ==
    mainPc = "idle" /\ mainPc' # "idle" => ~is_cancelled'

C39_CancelledRunsDoNotComplete ==
    /\ []CancelledRunReturnsQuietly
    /\ [][FlagResetAtStart]_vars

====
